---- MODULE Spec2Model ----
(***************************************************************************)
(* A model of cloudify-plugins-common's workflow task state machine        *)
(* (cloudify/workflows/tasks.py) and of the lifecycle graph builder        *)
(* (cloudify/plugins/lifecycle.py).                                        *)
(*                                                                         *)
(* Python's None and optional values are modelled as sequences of length   *)
(* at most one: None is <<>> and a present value x is <<x>>.               *)
(***************************************************************************)
EXTENDS Integers, Sequences, FiniteSets, TLC

VARIABLES
    tasks,        \* task id -> the WorkflowTask object's fields
    pc,           \* task id -> position of the thread inside apply_async
    calls,        \* task id -> invocations of local_task in the current apply_async
    local_result, \* task id -> what local_task() returned or raised in apply_async
    local_reg,    \* task id -> the local variable `registered` of _verify_task_registered
    cache,        \* RemoteWorkflowTask.cache: target -> set of registered names
    registered,   \* the worker side: target -> names celery's inspect reports
    queries,      \* task id -> registration queries issued by the current apply_async
    sent_events,  \* task ids whose current apply_async has sent the 'sending' event
    dispatched,   \* task ids whose current apply_async has dispatched to celery
    celery,       \* task id -> the celery AsyncResult's .result (None until it ends)
    ret,          \* what the last call returned or raised
    instances,    \* instance id -> the node instance a caller supplies
    node_instances,  \* LifecycleProcessor.node_instances (the active set)
    intact_nodes,    \* LifecycleProcessor.intact_nodes
    graph,        \* the task graph: its nodes, the ids in it, its dependencies
    subgraphs,    \* _process_node_instances: instance id -> subgraph id
    phase,        \* position of the thread inside the LifecycleProcessor
    handler_results, \* subgraph id -> what its on_failure handler returned
    current_ctx,  \* thread -> the context and parameters current in that thread
    pushed,       \* thread -> the current_ctx.push blocks the thread is inside
    runtime_properties, \* instance id -> the runtime properties the deployment holds
    node_instances_id,  \* the argument of assert_agent_validation_succeeded
    examined,     \* the ids the call has passed to ctx.deployment.get_node_instance
    agent_pc      \* position of the thread inside assert_agent_validation_succeeded

\* cloudify.state: the thread-local current context.  Neither the tasks nor
\* the lifecycle touch it: both groups below carry it, so that every action
\* of the two parts leaves it unchanged.
ctxVars == <<current_ctx, pushed>>

\* plugins/tasks.py: the agent validation check.  It is carried by both groups
\* below in the same way.
agentVars == <<runtime_properties, node_instances_id, examined, agent_pc>>

taskVars == <<tasks, pc, calls, local_result, local_reg, cache, registered, queries,
              sent_events, dispatched, celery, ret, ctxVars, agentVars>>

lifeVars == <<instances, node_instances, intact_nodes, graph, subgraphs, phase,
              handler_results, ctxVars, agentVars>>

vars == <<taskVars, lifeVars>>

-----------------------------------------------------------------------------
(* Bounds of the model *)

\* local callables return a value in 0..MaxValue (0 is falsy)
MaxValue == 1
\* a RecoverableError / HandlerResult carries retry_after in 1..MaxRetryAfter, or None
MaxRetryAfter == 2

None == <<>>
Some(x) == <<x>>

Values == 0..MaxValue
RetryAfterValues == {None} \cup {Some(d) : d \in 1..MaxRetryAfter}

-----------------------------------------------------------------------------
(* tasks.py: constants *)

INFINITE_TOTAL_RETRIES == -1
DEFAULT_TOTAL_RETRIES == INFINITE_TOTAL_RETRIES
DEFAULT_RETRY_INTERVAL == 30

TASK_PENDING == "pending"
TASK_SENDING == "sending"
TASK_SENT == "sent"
TASK_STARTED == "started"
TASK_SUCCEEDED == "succeeded"
TASK_FAILED == "failed"

\* the list set_state accepts
TaskStates == {TASK_PENDING, TASK_SENDING, TASK_SENT, TASK_STARTED,
               TASK_SUCCEEDED, TASK_FAILED}

HANDLER_RETRY == "handler_retry"
HANDLER_FAIL == "handler_fail"
HANDLER_IGNORE == "handler_ignore"
HANDLER_CONTINUE == "handler_continue"

\* HandlerResult.__init__
HandlerResult(action, ignore_total_retries, retry_after) ==
    [action |-> action,
     ignore_total_retries |-> ignore_total_retries,
     retry_after |-> retry_after]

HandlerResult_retry(ignore_total_retries, retry_after) ==
    HandlerResult(HANDLER_RETRY, ignore_total_retries, retry_after)
HandlerResult_fail == HandlerResult(HANDLER_FAIL, FALSE, None)
HandlerResult_cont == HandlerResult(HANDLER_CONTINUE, FALSE, None)
HandlerResult_ignore == HandlerResult(HANDLER_IGNORE, FALSE, None)

-----------------------------------------------------------------------------
(* Errors and results *)

\* the exception classes the two files name or raise, and Exception for the rest
ExcClasses == {"NonRecoverableError", "RecoverableError", "RuntimeError", "Exception"}

Exc(cls, retry_after) ==
    [tag |-> "exc", v |-> 0, cls |-> cls, retry_after |-> retry_after]
Val(v) == [tag |-> "value", v |-> v, cls |-> "", retry_after |-> None]

\* only RecoverableError carries retry_after
Exceptions ==
    {Exc(c, None) : c \in ExcClasses}
        \cup {Exc("RecoverableError", ra) : ra \in RetryAfterValues}

\* what a local callable or a remote operation ends with
Payloads == {Val(v) : v \in Values} \cup Exceptions

\* isinstance(exception, cls), exception being None, a value or an exception.
\* RuntimeError and Exception are builtins, NonRecoverableError and
\* RecoverableError are two separate classes of cloudify.exceptions.
isinstance(exception, cls) ==
    /\ exception # None
    /\ exception[1].tag = "exc"
    /\ exception[1].cls = cls

-----------------------------------------------------------------------------
(* on_success / on_failure handlers: callables from a task to a HandlerResult *)

NoHandler == [name |-> "None", result |-> HandlerResult_cont]
\* tasks.py: retry_failure_handler, the default on_failure of both task classes
RetryFailureHandler ==
    [name |-> "retry_failure_handler", result |-> HandlerResult_retry(FALSE, None)]
\* lifecycle.py: set_send_node_event_on_error_handler installs this one
SendNodeEventErrorHandler ==
    [name |-> "send_node_event_error_handler", result |-> HandlerResult_ignore]
\* lifecycle.py: node_get_state_handler, the on_success handler of the host's
\* get_state task; what it returns depends on the task's result (see
\* node_get_state_handler below), the result field is not read for it
NodeGetStateHandler ==
    [name |-> "node_get_state_handler", result |-> HandlerResult_cont]
\* any other handler a caller passes: it returns the HandlerResult it was built with
CustomHandler(result) == [name |-> "custom", result |-> result]

OnFailureResults ==
    {HandlerResult_retry(i, ra) : i \in BOOLEAN, ra \in RetryAfterValues}
        \cup {HandlerResult_fail, HandlerResult_ignore}

OnFailureHandlers ==
    {NoHandler, RetryFailureHandler, SendNodeEventErrorHandler}
        \cup {CustomHandler(r) : r \in OnFailureResults}

\* self.on_failure(self) / self.on_success(self)
CallHandler(handler, task) == handler.result

\* the events a handler sends through instance.send_event when it is called
HandlerEvents(handler) ==
    IF handler = SendNodeEventErrorHandler THEN <<"Ignoring task failure">> ELSE <<>>

-----------------------------------------------------------------------------
(* Tasks *)

KIND_LOCAL == "local"
KIND_REMOTE == "remote"

\* the one worker queue and the operation names of the model
Targets == {"w1"}
OpNames == {"op_a", "op_b"}

TaskIds == {1}

\* WorkflowTask.__init__ (with the fields the two subclasses add)
WorkflowTask(kind, on_success, on_failure, total_retries, retry_interval) ==
    [kind |-> kind,
     state |-> TASK_PENDING,
     async_result |-> None,
     on_success |-> on_success,
     on_failure |-> on_failure,
     total_retries |-> total_retries,
     retry_interval |-> retry_interval,
     current_retries |-> 0,
     name |-> "op_a",
     target |-> "w1"]

\* LocalWorkflowTask.is_local / RemoteWorkflowTask.is_local
is_local(task) == task.kind = KIND_LOCAL

\* WorkflowTask.is_remote
is_remote(task) == ~is_local(task)

\* LocalWorkflowTaskResult(result)
LocalWorkflowTaskResult(result) == [type |-> KIND_LOCAL, result |-> Some(result)]
\* RemoteWorkflowTaskResult(async_result): the celery result is looked up in
\* `celery` under the task id each time it is read
RemoteWorkflowTaskResult == [type |-> KIND_REMOTE, result |-> None]

\* self.async_result.async_result.result inside try/except (handle_task_failed):
\* None when there is no result handle, or when the handle has no async_result
\* attribute (a LocalWorkflowTaskResult)
UnderlyingResult(task, celery_result) ==
    IF task.async_result = None THEN None
    ELSE IF task.async_result[1].type = KIND_REMOTE THEN celery_result
    ELSE None

\* WorkflowTask.handle_task_failed with the NonRecoverableError branch removed
handle_task_failed_no_downgrade(task, celery_result) ==
    LET handler_result ==
            IF task.on_failure # NoHandler
            THEN CallHandler(task.on_failure, task)
            ELSE HandlerResult_retry(FALSE, None)
        exception == UnderlyingResult(task, celery_result)
    IN  IF handler_result.action = HANDLER_RETRY /\ is_remote(task)
            /\ isinstance(exception, "RecoverableError")
        THEN [handler_result EXCEPT !.retry_after = exception[1].retry_after]
        ELSE handler_result

\* WorkflowTask.handle_task_failed inspecting the error whatever the outcome is
handle_task_failed_any_action(task, celery_result) ==
    LET handler_result ==
            IF task.on_failure # NoHandler
            THEN CallHandler(task.on_failure, task)
            ELSE HandlerResult_retry(FALSE, None)
        exception == UnderlyingResult(task, celery_result)
    IN  IF is_remote(task)
        THEN IF isinstance(exception, "NonRecoverableError")
             THEN HandlerResult_fail
             ELSE IF isinstance(exception, "RecoverableError")
             THEN [handler_result EXCEPT !.retry_after = exception[1].retry_after]
             ELSE handler_result
        ELSE handler_result

\* WorkflowTask.handle_task_failed keeping the handler's retry_after
handle_task_failed_keep_delay(task, celery_result) ==
    LET handler_result ==
            IF task.on_failure # NoHandler
            THEN CallHandler(task.on_failure, task)
            ELSE HandlerResult_retry(FALSE, None)
        exception == UnderlyingResult(task, celery_result)
    IN  IF handler_result.action = HANDLER_RETRY /\ is_remote(task)
            /\ isinstance(exception, "NonRecoverableError")
        THEN HandlerResult_fail
        ELSE handler_result

\* WorkflowTask.handle_task_failed
handle_task_failed(task, celery_result) ==
    LET handler_result ==
            IF task.on_failure # NoHandler
            THEN CallHandler(task.on_failure, task)
            ELSE HandlerResult_retry(FALSE, None)
        exception == UnderlyingResult(task, celery_result)
    IN  IF handler_result.action = HANDLER_RETRY /\ is_remote(task)
        THEN IF isinstance(exception, "NonRecoverableError")
             THEN HandlerResult_fail
             ELSE IF isinstance(exception, "RecoverableError")
             THEN [handler_result EXCEPT !.retry_after = exception[1].retry_after]
             ELSE handler_result
        ELSE handler_result

\* tsk.async_result.get() of a task that has succeeded:
\* LocalWorkflowTaskResult.get returns the wrapped result,
\* RemoteWorkflowTaskResult.get returns what the celery result holds
AsyncResultGet(task, celery_result) ==
    IF task.async_result[1].type = KIND_REMOTE
    THEN celery_result[1].v
    ELSE task.async_result[1].result[1]

\* Python truthiness of an operation's result (0 stands for False, None, 0)
Truthy(v) == v # 0

\* node_get_state_handler with a plain retry, one that counts against the budget
node_get_state_handler_budgeted(tsk, celery_result) ==
    IF Truthy(AsyncResultGet(tsk, celery_result))
    THEN HandlerResult_cont
    ELSE HandlerResult_retry(FALSE, None)

\* lifecycle.py: node_get_state_handler(tsk) inside _wait_for_host_to_start
node_get_state_handler(tsk, celery_result) ==
    IF Truthy(AsyncResultGet(tsk, celery_result))
    THEN HandlerResult_cont
    ELSE HandlerResult_retry(TRUE, None)

\* self.on_success(self): the handlers that read the task's result get it
CallSuccessHandler(handler, task, celery_result) ==
    IF handler = NodeGetStateHandler
    THEN node_get_state_handler(task, celery_result)
    ELSE CallHandler(handler, task)

\* WorkflowTask.handle_task_succeeded
handle_task_succeeded(task, celery_result) ==
    IF task.on_success # NoHandler
    THEN CallSuccessHandler(task.on_success, task, celery_result)
    ELSE HandlerResult_cont

\* WorkflowTask.handle_task_terminated
handle_task_terminated(task, celery_result) ==
    IF task.state = TASK_FAILED
    THEN handle_task_failed(task, celery_result)
    ELSE handle_task_succeeded(task, celery_result)

\* what a call left behind: the callee, the task, and what it returned or raised
Returned(fn, t, result, handle) ==
    [fn |-> fn, id |-> t, raised |-> None, result |-> result, handle |-> handle]
Raised(fn, t, exception) ==
    [fn |-> fn, id |-> t, raised |-> Some(exception), result |-> None, handle |-> None]
NoCall == [fn |-> "", id |-> 0, raised |-> None, result |-> None, handle |-> None]

-----------------------------------------------------------------------------
(* WorkflowTask.set_state *)

\* the states a caller may hand to set_state: the six legal ones and an illegal one
SetStateInputs == TaskStates \cup {"bogus"}

SetState(t, state) ==
    /\ t \in DOMAIN tasks
    /\ IF state \notin TaskStates
       THEN /\ ret' = Raised("set_state", t, Exc("RuntimeError", None))
            /\ UNCHANGED tasks
       ELSE /\ tasks' = [tasks EXCEPT ![t].state = state]
            /\ ret' = Returned("set_state", t, None, None)
    /\ UNCHANGED <<pc, calls, local_result, local_reg, cache, registered, queries,
                   sent_events, dispatched, celery, lifeVars>>

-----------------------------------------------------------------------------
(* LocalWorkflowTask.apply_async: runs the callable in the calling thread *)

\* self.set_state(TASK_SENT), before the try block
LocalApplyBegin(t) ==
    /\ t \in DOMAIN tasks
    /\ is_local(tasks[t])
    /\ pc[t] = "idle"
    /\ tasks' = [tasks EXCEPT ![t].state = TASK_SENT]
    /\ calls' = [calls EXCEPT ![t] = 0]
    /\ pc' = [pc EXCEPT ![t] = "local_call"]
    /\ local_result' = [local_result EXCEPT ![t] = None]
    /\ UNCHANGED <<local_reg, cache, registered, queries, sent_events,
                   dispatched, celery, ret, lifeVars>>

\* result = self.local_task(): the callable returns a value or raises
LocalCall(t, payload) ==
    /\ t \in DOMAIN tasks
    /\ pc[t] = "local_call"
    /\ calls' = [calls EXCEPT ![t] = @ + 1]
    /\ local_result' = [local_result EXCEPT ![t] = Some(payload)]
    /\ pc' = [pc EXCEPT ![t] = IF payload.tag = "exc" THEN "local_except"
                                                     ELSE "local_returned"]
    /\ UNCHANGED <<tasks, local_reg, cache, registered, queries, sent_events,
                   dispatched, celery, ret, lifeVars>>

\* the try block after the call, wrapping a constant instead of the result
LocalApplyReturn_wrong_value(t) ==
    /\ t \in DOMAIN tasks
    /\ pc[t] = "local_returned"
    /\ tasks' = [tasks EXCEPT ![t].state = TASK_SUCCEEDED,
                              ![t].async_result = Some(LocalWorkflowTaskResult(0))]
    /\ ret' = Returned("apply_async", t, None, Some(LocalWorkflowTaskResult(0)))
    /\ pc' = [pc EXCEPT ![t] = "idle"]
    /\ UNCHANGED <<calls, local_result, local_reg, cache, registered, queries,
                   sent_events, dispatched, celery, lifeVars>>

\* the rest of the try block: succeeded, the result wrapped and returned
LocalApplyReturn(t) ==
    /\ t \in DOMAIN tasks
    /\ pc[t] = "local_returned"
    /\ tasks' = [tasks EXCEPT ![t].state = TASK_SUCCEEDED,
                              ![t].async_result =
                                  Some(LocalWorkflowTaskResult(local_result[t][1].v))]
    /\ ret' = Returned("apply_async", t, None,
                       Some(LocalWorkflowTaskResult(local_result[t][1].v)))
    /\ pc' = [pc EXCEPT ![t] = "idle"]
    /\ UNCHANGED <<calls, local_result, local_reg, cache, registered, queries,
                   sent_events, dispatched, celery, lifeVars>>

\* the bare except: failed, and the error propagates to the caller
LocalApplyRaise(t) ==
    /\ t \in DOMAIN tasks
    /\ pc[t] = "local_except"
    /\ tasks' = [tasks EXCEPT ![t].state = TASK_FAILED]
    /\ ret' = Raised("apply_async", t, local_result[t][1])
    /\ pc' = [pc EXCEPT ![t] = "idle"]
    /\ UNCHANGED <<calls, local_result, local_reg, cache, registered, queries,
                   sent_events, dispatched, celery, lifeVars>>

-----------------------------------------------------------------------------
(* RemoteWorkflowTask.apply_async *)

\* _verify_task_registered: registered = cache.get(self.target, set()) and the
\* first membership test
CachedNames(c, target) == IF target \in DOMAIN c THEN c[target] ELSE {}

RemoteVerifyCached(t) ==
    /\ t \in DOMAIN tasks
    /\ is_remote(tasks[t])
    /\ pc[t] = "idle"
    /\ queries' = [queries EXCEPT ![t] = 0]
    /\ sent_events' = sent_events \ {t}
    /\ dispatched' = dispatched \ {t}
    /\ local_reg' = [local_reg EXCEPT ![t] = CachedNames(cache, tasks[t].target)]
    /\ pc' = [pc EXCEPT ![t] =
                IF tasks[t].name \in CachedNames(cache, tasks[t].target)
                THEN "send_event" ELSE "query"]
    /\ UNCHANGED <<tasks, calls, local_result, cache, registered, celery, ret, lifeVars>>

\* _get_registered from a worker that reports nothing
get_registered_none(target) == {}

\* _get_registered: one inspect round trip to the worker celery.<target>
get_registered(target) == registered[target]

RemoteQuery(t) ==
    /\ t \in DOMAIN tasks
    /\ pc[t] = "query"
    /\ local_reg' = [local_reg EXCEPT ![t] = get_registered(tasks[t].target)]
    /\ queries' = [queries EXCEPT ![t] = @ + 1]
    /\ pc' = [pc EXCEPT ![t] = "store"]
    /\ UNCHANGED <<tasks, calls, local_result, cache, registered, sent_events, dispatched,
                   celery, ret, lifeVars>>

\* the error _verify_task_registered raises for a missing task
MissingTaskError == Exc("RuntimeError", None)

\* _verify_task_registered adding the query's result to the cached set instead
\* of replacing it
RemoteStore_merge(t) ==
    /\ t \in DOMAIN tasks
    /\ pc[t] = "store"
    /\ cache' = [x \in DOMAIN cache \cup {tasks[t].target} |->
                    IF x = tasks[t].target
                    THEN CachedNames(cache, x) \cup local_reg[t] ELSE cache[x]]
    /\ IF tasks[t].name \notin local_reg[t]
       THEN /\ ret' = Raised("apply_async", t, MissingTaskError)
            /\ pc' = [pc EXCEPT ![t] = "idle"]
       ELSE /\ pc' = [pc EXCEPT ![t] = "send_event"]
            /\ UNCHANGED ret
    /\ UNCHANGED <<tasks, calls, local_result, local_reg, registered, queries, sent_events,
                   dispatched, celery, lifeVars>>

\* cache[self.target] = registered, then the second membership test
RemoteStore(t) ==
    /\ t \in DOMAIN tasks
    /\ pc[t] = "store"
    /\ cache' = [x \in DOMAIN cache \cup {tasks[t].target} |->
                    IF x = tasks[t].target THEN local_reg[t] ELSE cache[x]]
    /\ IF tasks[t].name \notin local_reg[t]
       THEN /\ ret' = Raised("apply_async", t, MissingTaskError)
            /\ pc' = [pc EXCEPT ![t] = "idle"]
       ELSE /\ pc' = [pc EXCEPT ![t] = "send_event"]
            /\ UNCHANGED ret
    /\ UNCHANGED <<tasks, calls, local_result, local_reg, registered, queries, sent_events,
                   dispatched, celery, lifeVars>>

\* apply_async going on to the dispatch without sending the event
RemoteSendEvent_silent(t) ==
    /\ t \in DOMAIN tasks
    /\ pc[t] = "send_event"
    /\ pc' = [pc EXCEPT ![t] = "dispatch"]
    /\ UNCHANGED <<tasks, calls, local_result, local_reg, cache, registered, queries,
                   sent_events, dispatched, celery, ret, lifeVars>>

\* send_task_event(TASK_SENDING, self)
RemoteSendEvent(t) ==
    /\ t \in DOMAIN tasks
    /\ pc[t] = "send_event"
    /\ sent_events' = sent_events \cup {t}
    /\ pc' = [pc EXCEPT ![t] = "dispatch"]
    /\ UNCHANGED <<tasks, calls, local_result, local_reg, cache, registered, queries,
                   dispatched, celery, ret, lifeVars>>

\* async_result = self.task.apply_async(task_id=self.id): a fresh celery result
RemoteDispatch(t) ==
    /\ t \in DOMAIN tasks
    /\ pc[t] = "dispatch"
    /\ dispatched' = dispatched \cup {t}
    /\ celery' = [celery EXCEPT ![t] = None]
    /\ pc' = [pc EXCEPT ![t] = "set_sent"]
    /\ UNCHANGED <<tasks, calls, local_result, local_reg, cache, registered, queries,
                   sent_events, ret, lifeVars>>

\* self.set_state(TASK_SENT)
RemoteSetSent(t) ==
    /\ t \in DOMAIN tasks
    /\ pc[t] = "set_sent"
    /\ tasks' = [tasks EXCEPT ![t].state = TASK_SENT]
    /\ pc' = [pc EXCEPT ![t] = "store_result"]
    /\ UNCHANGED <<calls, local_result, local_reg, cache, registered, queries,
                   sent_events, dispatched, celery, ret, lifeVars>>

\* self.async_result = RemoteWorkflowTaskResult(async_result); return it
RemoteStoreResult(t) ==
    /\ t \in DOMAIN tasks
    /\ pc[t] = "store_result"
    /\ tasks' = [tasks EXCEPT ![t].async_result = Some(RemoteWorkflowTaskResult)]
    /\ ret' = Returned("apply_async", t, None, Some(RemoteWorkflowTaskResult))
    /\ pc' = [pc EXCEPT ![t] = "idle"]
    /\ UNCHANGED <<calls, local_result, local_reg, cache, registered, queries,
                   sent_events, dispatched, celery, lifeVars>>

-----------------------------------------------------------------------------
(* The environment: the worker *)

\* the dispatched operation ends on the worker: the celery result holds its
\* return value or the exception it raised
CeleryFinish(t, payload) ==
    /\ t \in dispatched
    /\ celery[t] = None
    /\ celery' = [celery EXCEPT ![t] = Some(payload)]
    /\ UNCHANGED <<tasks, pc, calls, local_result, local_reg, cache, registered, queries,
                   sent_events, dispatched, ret, lifeVars>>

\* a worker registers or drops operations, or goes away (it then reports none)
RegisteredChange(target, names) ==
    /\ registered[target] # names
    /\ registered' = [registered EXCEPT ![target] = names]
    /\ UNCHANGED <<tasks, pc, calls, local_result, local_reg, cache, queries, sent_events,
                   dispatched, celery, ret, lifeVars>>

-----------------------------------------------------------------------------
(* The handlers' entry points *)

HandleTaskTerminated(t) ==
    /\ t \in DOMAIN tasks
    /\ ret' = Returned(IF tasks[t].state = TASK_FAILED
                       THEN "handle_task_failed" ELSE "handle_task_succeeded",
                       t, Some(handle_task_terminated(tasks[t], celery[t])), None)
    /\ UNCHANGED <<tasks, pc, calls, local_result, local_reg, cache, registered, queries,
                   sent_events, dispatched, celery, lifeVars>>

HandleTaskFailed(t) ==
    /\ t \in DOMAIN tasks
    /\ ret' = Returned("handle_task_failed", t,
                       Some(handle_task_failed(tasks[t], celery[t])), None)
    /\ UNCHANGED <<tasks, pc, calls, local_result, local_reg, cache, registered, queries,
                   sent_events, dispatched, celery, lifeVars>>

-----------------------------------------------------------------------------
(* lifecycle.py: node instances and the tasks they produce *)

\* a node instance as the builders read it: is_host is
\* 'cloudify.nodes.Compute' in node.type_hierarchy, install_agent is
\* node.properties['install_agent'] is True, remote_execution_false is
\* node.properties.get('remote_execution') is False, operations is
\* node.operations, plugins_to_install says whether node.plugins_to_install
\* holds a plugin with 'install' set, relationships lists the targets' ids
NodeInstance(is_host, install_agent, remote_execution_false, operations, plugins_to_install, relationships) ==
    [is_host |-> is_host,
     install_agent |-> install_agent,
     remote_execution_false |-> remote_execution_false,
     operations |-> operations,
     plugins_to_install |-> plugins_to_install,
     relationships |-> relationships]

\* the task a call on an instance or on one of its relationships returns, not
\* yet added to a graph; rel is the relationship's index (0 for none)
TaskOf(fn, arg, rel) == [fn |-> fn, arg |-> arg, rel |-> rel]

set_state(state) == TaskOf("set_state", state, 0)
send_event(event) == TaskOf("send_event", event, 0)
execute_operation(operation) == TaskOf("execute_operation", operation, 0)

\* _relationship_operations
relationship_operations(rel, operation) ==
    <<TaskOf("execute_source_operation", operation, rel),
      TaskOf("execute_target_operation", operation, rel)>>

\* _relationships_operations
RECURSIVE RelationshipsOperationsFrom(_, _, _)
RelationshipsOperationsFrom(instance, operation, rel) ==
    IF rel > Len(instance.relationships) THEN <<>>
    ELSE relationship_operations(rel, operation)
             \o RelationshipsOperationsFrom(instance, operation, rel + 1)

relationships_operations(instance, operation) ==
    RelationshipsOperationsFrom(instance, operation, 1)

\* is_host_node
is_host_node(instance) == instance.is_host

\* _wait_for_host_to_start: the get_state task (its on_success handler is set
\* where the task is added to the graph)
wait_for_host_to_start == execute_operation("cloudify.interfaces.host.get_state")

\* prepare_running_agent
prepare_running_agent(instance) ==
    (IF instance.plugins_to_install
     THEN <<send_event("Installing plugins")>>
          \o (IF "cloudify.interfaces.plugin_installer.install" \in instance.operations
              THEN <<execute_operation("cloudify.interfaces.plugin_installer.install")>>
              ELSE <<execute_operation("cloudify.interfaces.cloudify_agent.install_plugins")>>)
          \o (IF instance.remote_execution_false
              THEN <<send_event("Restarting Agent via AMQP"),
                     execute_operation("cloudify.interfaces.cloudify_agent.restart_amqp")>>
              ELSE <<send_event("Restarting Agent")>>
                   \o (IF "cloudify.interfaces.worker_installer.restart"
                              \in instance.operations
                       THEN <<execute_operation("cloudify.interfaces.worker_installer.restart")>>
                       ELSE <<execute_operation("cloudify.interfaces.cloudify_agent.restart")>>))
     ELSE <<>>)
    \o <<execute_operation("cloudify.interfaces.monitoring_agent.install"),
         execute_operation("cloudify.interfaces.monitoring_agent.start")>>

\* _host_post_start
host_post_start(instance) ==
    <<wait_for_host_to_start>>
    \o (IF instance.install_agent
        THEN IF "cloudify.interfaces.worker_installer.install" \in instance.operations
             THEN <<send_event("Installing Agent"),
                    execute_operation("cloudify.interfaces.worker_installer.install"),
                    send_event("Starting Agent"),
                    execute_operation("cloudify.interfaces.worker_installer.start")>>
             ELSE <<send_event("Creating Agent"),
                    execute_operation("cloudify.interfaces.cloudify_agent.create"),
                    send_event("Configuring Agent"),
                    execute_operation("cloudify.interfaces.cloudify_agent.configure"),
                    send_event("Starting Agent"),
                    execute_operation("cloudify.interfaces.cloudify_agent.start")>>
        ELSE <<>>)
    \o prepare_running_agent(instance)

\* _host_pre_stop
host_pre_stop(instance) ==
    <<execute_operation("cloudify.interfaces.monitoring_agent.stop"),
      execute_operation("cloudify.interfaces.monitoring_agent.uninstall")>>
    \o (IF instance.install_agent
        THEN IF instance.remote_execution_false
             THEN <<send_event("Stopping agent"),
                    execute_operation("cloudify.interfaces.cloudify_agent.stop_amqp"),
                    send_event("Deleting agent"),
                    execute_operation("cloudify.interfaces.cloudify_agent.delete")>>
             ELSE IF "cloudify.interfaces.worker_installer.stop" \in instance.operations
             THEN <<send_event("Stopping agent"),
                    execute_operation("cloudify.interfaces.worker_installer.stop"),
                    send_event("Deleting agent"),
                    execute_operation("cloudify.interfaces.worker_installer.uninstall")>>
             ELSE <<send_event("Stopping agent"),
                    execute_operation("cloudify.interfaces.cloudify_agent.stop"),
                    send_event("Deleting agent"),
                    execute_operation("cloudify.interfaces.cloudify_agent.delete")>>
        ELSE <<>>)

\* sequence.add of a list of tasks: every task a group of its own
Singly(tasklist) == [i \in 1..Len(tasklist) |-> <<tasklist[i]>>]

\* the install sequence with the configure operation ahead of the preconfigure
\* relationship operations
InstallSequence_configure_early(instance) ==
    << <<set_state("initializing")>>,
       <<send_event("Creating node"), set_state("creating")>>,
       <<execute_operation("cloudify.interfaces.lifecycle.create")>>,
       <<set_state("created")>>,
       <<execute_operation("cloudify.interfaces.lifecycle.configure")>>,
       relationships_operations(
           instance, "cloudify.interfaces.relationship_lifecycle.preconfigure"),
       <<set_state("configuring"), send_event("Configuring node")>>,
       <<set_state("configured")>>,
       relationships_operations(
           instance, "cloudify.interfaces.relationship_lifecycle.postconfigure"),
       <<set_state("starting"), send_event("Starting node")>>,
       <<execute_operation("cloudify.interfaces.lifecycle.start")>> >>
    \o (IF is_host_node(instance) THEN Singly(host_post_start(instance)) ELSE <<>>)
    \o << <<execute_operation("cloudify.interfaces.monitoring.start")>>
              \o relationships_operations(
                     instance, "cloudify.interfaces.relationship_lifecycle.establish"),
          <<set_state("started")>> >>

\* install_node_instance_subgraph: the arguments of its sequence.add calls, a
\* forkjoin(...) being a group of several tasks and a single task a group of one
InstallSequence(instance) ==
    << <<set_state("initializing")>>,
       <<send_event("Creating node"), set_state("creating")>>,
       <<execute_operation("cloudify.interfaces.lifecycle.create")>>,
       <<set_state("created")>>,
       relationships_operations(
           instance, "cloudify.interfaces.relationship_lifecycle.preconfigure"),
       <<set_state("configuring"), send_event("Configuring node")>>,
       <<execute_operation("cloudify.interfaces.lifecycle.configure")>>,
       <<set_state("configured")>>,
       relationships_operations(
           instance, "cloudify.interfaces.relationship_lifecycle.postconfigure"),
       <<set_state("starting"), send_event("Starting node")>>,
       <<execute_operation("cloudify.interfaces.lifecycle.start")>> >>
    \o (IF is_host_node(instance) THEN Singly(host_post_start(instance)) ELSE <<>>)
    \o << <<execute_operation("cloudify.interfaces.monitoring.start")>>
              \o relationships_operations(
                     instance, "cloudify.interfaces.relationship_lifecycle.establish"),
          <<set_state("started")>> >>

\* uninstall_node_instance_subgraph: the arguments of its sequence.add calls
UninstallSequence(instance) ==
    << <<set_state("stopping")>>,
       <<send_event("Stopping node")>>,
       <<execute_operation("cloudify.interfaces.monitoring.stop")>> >>
    \o (IF is_host_node(instance) THEN Singly(host_pre_stop(instance)) ELSE <<>>)
    \o << <<execute_operation("cloudify.interfaces.lifecycle.stop")>>,
          <<set_state("stopped")>>,
          relationships_operations(
              instance, "cloudify.interfaces.relationship_lifecycle.unlink"),
          <<set_state("deleting")>>,
          <<send_event("Deleting node")>>,
          <<execute_operation("cloudify.interfaces.lifecycle.delete")>>,
          <<set_state("deleted")>> >>

-----------------------------------------------------------------------------
(* The task graph the builders write to (tasks_graph: subgraph, sequence, *)
(* add_task, add_dependency, remove_task)                                  *)

NoSubgraph == 0
NoTask == 0

EmptyGraph == [nodes |-> <<>>, tasks |-> {}, deps |-> {}]

\* the id the next task or subgraph gets
NextId(G) == Len(G.nodes) + 1

\* graph.add_task / subgraph.add_task of a new object: it joins the graph and,
\* inside a subgraph, that subgraph's tasks, which becomes its containing_subgraph
AddNode(G, node) ==
    [nodes |-> Append(IF node.containing_subgraph = NoSubgraph THEN G.nodes
                      ELSE [G.nodes EXCEPT ![node.containing_subgraph].tasks =
                                               @ \cup {NextId(G)}],
                      node),
     tasks |-> G.tasks \cup {NextId(G)},
     deps |-> G.deps]

\* graph.subgraph(name) on the graph (containing = NoSubgraph) or on a subgraph:
\* a SubgraphTask in state pending, with no tasks and no failed task
SubgraphNode(name, instance_id, containing) ==
    [kind |-> "subgraph", fn |-> "subgraph", arg |-> name, rel |-> 0,
     instance |-> instance_id, containing_subgraph |-> containing,
     state |-> TASK_PENDING, failed_task |-> NoTask, current_retries |-> 0,
     on_success |-> "None", on_failure |-> "None", tasks |-> {}]

graph_subgraph(G, name, instance_id, containing) ==
    AddNode(G, SubgraphNode(name, instance_id, containing))

\* a task an instance or relationship call returned, as a member of a subgraph:
\* a WorkflowTask in state pending with the default on_failure handler
TaskNode(task, instance_id, containing) ==
    [kind |-> "task", fn |-> task.fn, arg |-> task.arg, rel |-> task.rel,
     instance |-> instance_id, containing_subgraph |-> containing,
     state |-> TASK_PENDING, failed_task |-> NoTask, current_retries |-> 0,
     on_success |->
         IF task = wait_for_host_to_start THEN "node_get_state_handler" ELSE "None",
     on_failure |-> "retry_failure_handler", tasks |-> {}]

\* graph.add_dependency(src, dst): src waits for dst
add_dependency(G, src, dst) == [G EXCEPT !.deps = @ \cup {<<src, dst>>}]

\* graph.remove_task(task): the task leaves the graph with its dependencies
remove_task(G, id) ==
    [G EXCEPT !.tasks = @ \ {id},
              !.deps = {d \in @ : d[1] # id /\ d[2] # id}]

\* subgraph.sequence().add(...): each group's tasks join the subgraph and wait
\* for every task of the group before it; an empty forkjoin is skipped
SequenceAdd(G, groups, instance_id, containing) ==
    LET n == Len(groups)
        base == Len(G.nodes)
        off[k \in 1..(n + 1)] == IF k = 1 THEN 0 ELSE off[k - 1] + Len(groups[k - 1])
        total == off[n + 1]
        GroupOf(i) == CHOOSE k \in 1..n : off[k] < i /\ i <= off[k + 1]
        PrevGroup(k) == LET before == {j \in 1..(k - 1) : groups[j] # <<>>}
                        IN  IF before = {} THEN 0
                            ELSE CHOOSE j \in before : \A m \in before : m <= j
        added == [i \in 1..total |->
                     TaskNode(groups[GroupOf(i)][i - off[GroupOf(i)]],
                              instance_id, containing)]
    IN  [nodes |-> [G.nodes EXCEPT ![containing].tasks =
                                       @ \cup {base + i : i \in 1..total}] \o added,
         tasks |-> G.tasks \cup {base + i : i \in 1..total},
         deps |-> G.deps \cup {<<base + p[1], base + p[2]>> :
                                   p \in {q \in (1..total) \X (1..total) :
                                             GroupOf(q[2]) = PrevGroup(GroupOf(q[1]))}}]

-----------------------------------------------------------------------------
(* lifecycle.py: the per-instance subgraph builders.  Each returns the graph *)
(* with the new subgraph in it; the subgraph's id is NextId of the graph it  *)
(* was given.                                                                *)

INSTALL_HANDLER == "install_subgraph_on_failure_handler"
IGNORE_HANDLER == "send_node_event_error_handler"

\* the handler object behind the on_failure name a graph task carries
HandlerNamed(name) ==
    IF name = IGNORE_HANDLER THEN SendNodeEventErrorHandler
    ELSE IF name = "retry_failure_handler" THEN RetryFailureHandler
    ELSE IF name = "node_get_state_handler" THEN NodeGetStateHandler
    ELSE NoHandler

\* install_node_instance_subgraph(instance, graph)
install_node_instance_subgraph(G, instance_id, instance, containing) ==
    LET subgraph == NextId(G)
        G1 == graph_subgraph(G, "install", instance_id, containing)
        G2 == SequenceAdd(G1, InstallSequence(instance), instance_id, subgraph)
    IN  [G2 EXCEPT !.nodes[subgraph].on_failure = INSTALL_HANDLER]

\* uninstall_node_instance_subgraph leaving the relationship tasks their
\* default handler
uninstall_node_instance_subgraph_unlink_unhandled(G, instance_id, instance, containing) ==
    LET subgraph == NextId(G)
        G1 == graph_subgraph(G, "uninstall", instance_id, containing)
        G2 == SequenceAdd(G1, UninstallSequence(instance), instance_id, subgraph)
    IN  [G2 EXCEPT !.nodes =
            [i \in DOMAIN G2.nodes |->
                IF i \in G2.nodes[subgraph].tasks /\ G2.nodes[i].rel = 0
                THEN [G2.nodes[i] EXCEPT !.on_failure = IGNORE_HANDLER]
                ELSE G2.nodes[i]]]

\* uninstall_node_instance_subgraph(instance, graph)
uninstall_node_instance_subgraph(G, instance_id, instance, containing) ==
    LET subgraph == NextId(G)
        G1 == graph_subgraph(G, "uninstall", instance_id, containing)
        G2 == SequenceAdd(G1, UninstallSequence(instance), instance_id, subgraph)
    IN  [G2 EXCEPT !.nodes =
            [i \in DOMAIN G2.nodes |->
                IF i \in G2.nodes[subgraph].tasks
                THEN [G2.nodes[i] EXCEPT !.on_failure = IGNORE_HANDLER]
                ELSE G2.nodes[i]]]

\* reinstall_node_instance_subgraph with the install subgraph ahead of the
\* uninstall subgraph in the sequence
reinstall_node_instance_subgraph_install_first(G, instance_id, instance, containing) ==
    LET reinstall_subgraph == NextId(G)
        G1 == graph_subgraph(G, "reinstall", instance_id, containing)
        uninstall_subgraph == NextId(G1)
        G2 == uninstall_node_instance_subgraph(G1, instance_id, instance,
                                               reinstall_subgraph)
        install_subgraph == NextId(G2)
        G3 == install_node_instance_subgraph(G2, instance_id, instance,
                                             reinstall_subgraph)
        event == NextId(G3)
        G4 == AddNode(G3, TaskNode(send_event("Node lifecycle failed. Attempting to re-run node lifecycle"),
                                   instance_id, reinstall_subgraph))
        G5 == add_dependency(add_dependency(G4, install_subgraph, event),
                             uninstall_subgraph, install_subgraph)
    IN  [G5 EXCEPT !.nodes[reinstall_subgraph].on_failure = INSTALL_HANDLER]

\* reinstall_node_instance_subgraph(instance, graph)
reinstall_node_instance_subgraph(G, instance_id, instance, containing) ==
    LET reinstall_subgraph == NextId(G)
        G1 == graph_subgraph(G, "reinstall", instance_id, containing)
        uninstall_subgraph == NextId(G1)
        G2 == uninstall_node_instance_subgraph(G1, instance_id, instance,
                                               reinstall_subgraph)
        install_subgraph == NextId(G2)
        G3 == install_node_instance_subgraph(G2, instance_id, instance,
                                             reinstall_subgraph)
        event == NextId(G3)
        G4 == AddNode(G3, TaskNode(send_event("Node lifecycle failed. Attempting to re-run node lifecycle"),
                                   instance_id, reinstall_subgraph))
        G5 == add_dependency(add_dependency(G4, uninstall_subgraph, event),
                             install_subgraph, uninstall_subgraph)
    IN  [G5 EXCEPT !.nodes[reinstall_subgraph].on_failure = INSTALL_HANDLER]

\* a HandlerResult with the retried_task attribute the handler adds to it
WithRetriedTask(handler_result, retried_task) ==
    [action |-> handler_result.action,
     ignore_total_retries |-> handler_result.ignore_total_retries,
     retry_after |-> handler_result.retry_after,
     retried_task |-> retried_task]

\* "for task in subgraph.tasks.itervalues(): graph.remove_task(task)": what
\* remove_task(G, id) leaves when applied for every id of the set
RemoveTasks(G, ids) ==
    [G EXCEPT !.tasks = @ \ ids,
              !.deps = {d \in @ : d[1] \notin ids /\ d[2] \notin ids}]

\* the handler with a replacement that keeps the failed subgraph's counter
install_subgraph_on_failure_handler_same_counter(G, subgraph, instance_id, instance) ==
    LET G1 == RemoveTasks(G, G.nodes[subgraph].tasks)
        containing == G.nodes[subgraph].containing_subgraph
    IN  IF containing = NoSubgraph
        THEN LET retried_task == NextId(G1)
                 G2 == reinstall_node_instance_subgraph(G1, instance_id, instance,
                                                        NoSubgraph)
             IN  [graph |-> [G2 EXCEPT !.nodes[retried_task].current_retries =
                                           G.nodes[subgraph].current_retries],
                  result |-> WithRetriedTask(HandlerResult_retry(FALSE, None),
                                             Some(retried_task))]
        ELSE [graph |-> [G1 EXCEPT !.nodes[containing].failed_task =
                                       G.nodes[subgraph].failed_task,
                                   !.nodes[containing].state = TASK_FAILED],
              result |-> WithRetriedTask(HandlerResult_ignore, None)]

\* the handler with a nested branch that does not record the failed task
install_subgraph_on_failure_handler_no_failed_task(G, subgraph, instance_id, instance) ==
    LET G1 == RemoveTasks(G, G.nodes[subgraph].tasks)
        containing == G.nodes[subgraph].containing_subgraph
    IN  IF containing = NoSubgraph
        THEN LET retried_task == NextId(G1)
                 G2 == reinstall_node_instance_subgraph(G1, instance_id, instance,
                                                        NoSubgraph)
             IN  [graph |-> [G2 EXCEPT !.nodes[retried_task].current_retries =
                                           G.nodes[subgraph].current_retries + 1],
                  result |-> WithRetriedTask(HandlerResult_retry(FALSE, None),
                                             Some(retried_task))]
        ELSE [graph |-> [G1 EXCEPT !.nodes[containing].state = TASK_FAILED],
              result |-> WithRetriedTask(HandlerResult_ignore, None)]

\* get_install_subgraph_on_failure_handler(instance) called on subgraph: the
\* graph it leaves and the result it returns
install_subgraph_on_failure_handler(G, subgraph, instance_id, instance) ==
    LET G1 == RemoveTasks(G, G.nodes[subgraph].tasks)
        containing == G.nodes[subgraph].containing_subgraph
    IN  IF containing = NoSubgraph
        THEN LET retried_task == NextId(G1)
                 G2 == reinstall_node_instance_subgraph(G1, instance_id, instance,
                                                        NoSubgraph)
             IN  [graph |-> [G2 EXCEPT !.nodes[retried_task].current_retries =
                                           G.nodes[subgraph].current_retries + 1],
                  result |-> WithRetriedTask(HandlerResult_retry(FALSE, None),
                                             Some(retried_task))]
        ELSE [graph |-> [G1 EXCEPT !.nodes[containing].failed_task =
                                       G.nodes[subgraph].failed_task,
                                   !.nodes[containing].state = TASK_FAILED],
              result |-> WithRetriedTask(HandlerResult_ignore, None)]

-----------------------------------------------------------------------------
(* Failure recovery of install and reinstall subgraphs *)

\* the top-level failure handler runs at most MaxReinstalls times in a behaviour
MaxReinstalls == 2
\* at most MaxFailures tasks fail while a graph is executed
MaxFailures == 2

InstanceIds == {"a", "b", "c"}

\* a node instance that is no host
PlainInstance(relationships) ==
    NodeInstance(FALSE, FALSE, FALSE, {}, FALSE, relationships)

\* a host whose agent is installed through the legacy worker_installer
\* operations, with plugins to install
LegacyHostInstance(relationships) ==
    NodeInstance(TRUE, TRUE, FALSE,
                 {"cloudify.interfaces.worker_installer.install",
                  "cloudify.interfaces.worker_installer.restart",
                  "cloudify.interfaces.worker_installer.stop",
                  "cloudify.interfaces.plugin_installer.install"},
                 TRUE, relationships)

\* the tasks that fail in the behaviours explored: a lifecycle operation
\* and the event task of a reinstall subgraph
FailingTasks ==
    {[fn |-> "execute_operation", arg |-> "cloudify.interfaces.lifecycle.start"],
     [fn |-> "send_event",
      arg |-> "Node lifecycle failed. Attempting to re-run node lifecycle"]}

\* the subgraph and all it contains, directly or through nested subgraphs
RECURSIVE Contents(_, _)
Contents(G, subgraph) ==
    G.nodes[subgraph].tasks
        \cup UNION {Contents(G, n) : n \in {m \in G.nodes[subgraph].tasks :
                                               G.nodes[m].kind = "subgraph"}}

\* the subgraphs around a task or subgraph, innermost first
RECURSIVE Containing(_, _)
Containing(G, id) ==
    IF G.nodes[id].containing_subgraph = NoSubgraph THEN {}
    ELSE {G.nodes[id].containing_subgraph}
             \cup Containing(G, G.nodes[id].containing_subgraph)

\* the engine: a task of a subgraph fails for good (its own handler resolved to
\* fail, or its retries ran out); the subgraph records it and fails
SubgraphTaskFailed(subgraph, task) ==
    /\ [fn |-> graph.nodes[task].fn, arg |-> graph.nodes[task].arg] \in FailingTasks
    /\ phase = "executing"
    /\ subgraph \in graph.tasks
    /\ graph.nodes[subgraph].kind = "subgraph"
    /\ graph.nodes[subgraph].state # TASK_FAILED
    /\ \A s \in Containing(graph, subgraph) :
           s \in graph.tasks /\ graph.nodes[s].state # TASK_FAILED
    /\ task \in graph.nodes[subgraph].tasks \cap graph.tasks
    /\ graph.nodes[task].kind = "task"
    /\ graph.nodes[task].state = TASK_PENDING
    /\ graph.nodes[task].on_failure # IGNORE_HANDLER
    /\ graph' = [graph EXCEPT !.nodes[task].state = TASK_FAILED,
                              !.nodes[subgraph].failed_task = task,
                              !.nodes[subgraph].state = TASK_FAILED]
    /\ UNCHANGED <<instances, node_instances, intact_nodes, subgraphs, phase,
                   handler_results, taskVars>>

\* the top-level runs of the handler so far
TopLevelRuns ==
    {s \in DOMAIN handler_results :
        graph.nodes[s].containing_subgraph = NoSubgraph}

\* the engine calls subgraph.on_failure(subgraph) for a failed subgraph
SubgraphOnFailure(subgraph) ==
    /\ phase = "executing"
    /\ subgraph \in graph.tasks
    /\ graph.nodes[subgraph].kind = "subgraph"
    /\ graph.nodes[subgraph].state = TASK_FAILED
    /\ graph.nodes[subgraph].on_failure = INSTALL_HANDLER
    /\ subgraph \notin DOMAIN handler_results
    /\ graph.nodes[subgraph].containing_subgraph = NoSubgraph
           => Cardinality(TopLevelRuns) < MaxReinstalls
    /\ LET out == install_subgraph_on_failure_handler(
                      graph, subgraph, graph.nodes[subgraph].instance,
                      instances[graph.nodes[subgraph].instance])
       IN  /\ graph' = out.graph
           /\ handler_results' =
                  [s \in DOMAIN handler_results \cup {subgraph} |->
                      IF s = subgraph THEN out.result ELSE handler_results[s]]
    /\ UNCHANGED <<instances, node_instances, intact_nodes, subgraphs, phase,
                   taskVars>>

\* the threads of the model
Threads == {1, 2}

\* no thread has a current context
CtxIdle ==
    /\ current_ctx = [th \in Threads |-> None]
    /\ pushed = [th \in Threads |-> <<>>]

\* no call of assert_agent_validation_succeeded, and no deployment to ask
AgentIdle ==
    /\ runtime_properties = <<>>
    /\ node_instances_id = <<>>
    /\ examined = <<>>
    /\ agent_pc = "idle"

\* the task variables while the lifecycle is modelled
TaskIdle ==
    /\ CtxIdle
    /\ AgentIdle
    /\ tasks = <<>>
    /\ pc = <<>>
    /\ calls = <<>>
    /\ local_result = <<>>
    /\ local_reg = <<>>
    /\ cache = <<>>
    /\ registered = [g \in Targets |-> {}]
    /\ queries = <<>>
    /\ sent_events = {}
    /\ dispatched = {}
    /\ celery = <<>>
    /\ ret = NoCall

\* the lifecycle variables while the tasks are modelled
LifeIdle ==
    /\ CtxIdle
    /\ AgentIdle
    /\ instances = <<>>
    /\ node_instances = {}
    /\ intact_nodes = {}
    /\ graph = EmptyGraph
    /\ subgraphs = <<>>
    /\ phase = "idle"
    /\ handler_results = <<>>

\* install_node_instances has built the install subgraphs of two instances, a
\* (a host or not, related to b) and b, and the graph is executing
RecoveryGraph(instance_a, instance_b) ==
    LET G1 == install_node_instance_subgraph(EmptyGraph, "a", instance_a, NoSubgraph)
        G2 == install_node_instance_subgraph(G1, "b", instance_b, NoSubgraph)
    IN  [graph |-> add_dependency(G2, 1, NextId(G1)),
         subgraphs |-> [i \in {"a", "b"} |-> IF i = "a" THEN 1 ELSE NextId(G1)]]

RecoveryInit ==
    /\ TaskIdle
    /\ \E x \in {PlainInstance(<<"b">>), LegacyHostInstance(<<"b">>)} :
           /\ instances = [i \in {"a", "b"} |-> IF i = "a" THEN x ELSE PlainInstance(<<>>)]
           /\ graph = RecoveryGraph(x, PlainInstance(<<>>)).graph
           /\ subgraphs = RecoveryGraph(x, PlainInstance(<<>>)).subgraphs
    /\ node_instances = {"a", "b"}
    /\ intact_nodes = {}
    /\ phase = "executing"
    /\ handler_results = <<>>

RecoveryNext ==
    \/ \E s \in graph.tasks : \E t \in graph.nodes[s].tasks : SubgraphTaskFailed(s, t)
    \/ \E s \in graph.tasks : SubgraphOnFailure(s)

SpecRecovery == RecoveryInit /\ [][RecoveryNext]_vars

-----------------------------------------------------------------------------
(* lifecycle.py: LifecycleProcessor.  node_instances and intact_nodes hold  *)
(* the ids of the processor's two collections, instances the node instance *)
(* behind each id.                                                          *)

\* the order in which the processor's loops visit instances
InstanceOrder == <<"a", "b", "c">>
InOrder(ids) == SelectSeq(InstanceOrder, LAMBDA i : i \in ids)

\* subgraphs[instance_id] = subgraph
Put(dict, key, value) ==
    [k \in DOMAIN dict \cup {key} |-> IF k = key THEN value ELSE dict[k]]

\* _process_node_instances, first loop: a subgraph per node instance
RECURSIVE BuildSubgraphs(_, _, _)
BuildSubgraphs(acc, ids, install) ==
    IF ids = <<>> THEN acc
    ELSE LET i == Head(ids)
             G == IF install
                  THEN install_node_instance_subgraph(acc.graph, i, instances[i],
                                                      NoSubgraph)
                  ELSE uninstall_node_instance_subgraph(acc.graph, i, instances[i],
                                                        NoSubgraph)
         IN  BuildSubgraphs([graph |-> G,
                             subgraphs |-> Put(acc.subgraphs, i, NextId(acc.graph))],
                            Tail(ids), install)

\* _process_node_instances, second loop: a stub subgraph per intact instance
RECURSIVE BuildStubs(_, _)
BuildStubs(acc, ids) ==
    IF ids = <<>> THEN acc
    ELSE BuildStubs([graph |-> graph_subgraph(acc.graph, "stub", Head(ids), NoSubgraph),
                     subgraphs |-> Put(acc.subgraphs, Head(ids), NextId(acc.graph))],
                    Tail(ids))

\* the (instance, relationship) pairs in the order _add_dependencies visits them
RECURSIVE RelationshipsOf(_)
RelationshipsOf(ids) ==
    IF ids = <<>> THEN <<>>
    ELSE [r \in 1..Len(instances[Head(ids)].relationships) |-> <<Head(ids), r>>]
             \o RelationshipsOf(Tail(ids))

\* intact_on_dependency_added without the test of line 95: the tasks are
\* injected for every relationship the callback is called for
intact_on_dependency_added_any(G, instance_id, rel, source_subgraph, install) ==
    LET intact_op == IF install
                     THEN "cloudify.interfaces.relationship_lifecycle.establish"
                     ELSE "cloudify.interfaces.relationship_lifecycle.unlink"
        intact_tasks == relationship_operations(rel, intact_op)
        Node(k) == [TaskNode(intact_tasks[k], instance_id, source_subgraph)
                        EXCEPT !.on_failure = IF install THEN @ ELSE IGNORE_HANDLER]
    IN  AddNode(AddNode(G, Node(1)), Node(2))

\* intact_on_dependency_added(instance, rel, source_subgraph)
intact_on_dependency_added(G, instance_id, rel, source_subgraph, install) ==
    IF instances[instance_id].relationships[rel] \in node_instances
    THEN LET intact_op == IF install
                          THEN "cloudify.interfaces.relationship_lifecycle.establish"
                          ELSE "cloudify.interfaces.relationship_lifecycle.unlink"
             intact_tasks == relationship_operations(rel, intact_op)
             Node(k) == [TaskNode(intact_tasks[k], instance_id, source_subgraph)
                             EXCEPT !.on_failure = IF install THEN @ ELSE IGNORE_HANDLER]
         IN  AddNode(AddNode(G, Node(1)), Node(2))
    ELSE G

\* the dependency _add_dependencies adds without reversing it for uninstall
dependency_not_reversed(source_subgraph, target_subgraph, install) ==
    <<source_subgraph, target_subgraph>>

\* the arguments of graph.add_dependency in _add_dependencies
dependency(source_subgraph, target_subgraph, install) ==
    IF install THEN <<source_subgraph, target_subgraph>>
    ELSE <<target_subgraph, source_subgraph>>

\* _add_dependencies(subgraphs, instances, install, on_dependency_added)
RECURSIVE add_dependencies(_, _, _, _, _)
add_dependencies(G, dict, rels, install, on_dependency_added) ==
    IF rels = <<>> THEN G
    ELSE LET instance_id == Head(rels)[1]
             rel == Head(rels)[2]
             target == instances[instance_id].relationships[rel]
         IN  IF target \in node_instances \/ target \in intact_nodes
             THEN LET d == dependency(dict[instance_id], dict[target], install)
                      G1 == add_dependency(G, d[1], d[2])
                      G2 == IF on_dependency_added
                            THEN intact_on_dependency_added(G1, instance_id, rel,
                                                            dict[instance_id], install)
                            ELSE G1
                  IN  add_dependencies(G2, dict, Tail(rels), install,
                                       on_dependency_added)
             ELSE add_dependencies(G, dict, Tail(rels), install, on_dependency_added)

\* _finish_subgraphs
finish_subgraphs(G, dict, install) ==
    add_dependencies(
        add_dependencies(G, dict, RelationshipsOf(InOrder(node_instances)), install,
                         FALSE),
        dict, RelationshipsOf(InOrder(intact_nodes)), install, TRUE)

\* _process_node_instances up to graph.execute()
process_node_instances(install) ==
    LET built == BuildStubs(BuildSubgraphs([graph |-> graph, subgraphs |-> <<>>],
                                           InOrder(node_instances), install),
                            InOrder(intact_nodes))
    IN  [graph |-> finish_subgraphs(built.graph, built.subgraphs, install),
         subgraphs |-> built.subgraphs]

\* install_node_instances / uninstall_node_instances: LifecycleProcessor(...)
\* .install() or .uninstall(), up to the start of graph.execute()
ProcessNodeInstances(install) ==
    /\ phase = "constructed"
    /\ graph' = process_node_instances(install).graph
    /\ subgraphs' = process_node_instances(install).subgraphs
    /\ phase' = IF install THEN "install" ELSE "uninstall"
    /\ UNCHANGED <<instances, node_instances, intact_nodes, handler_results, taskVars>>

\* graph.execute() is running on the graph a builder or the processor left
Executing == phase \in {"install", "uninstall", "reinstall"}

\* a task or subgraph others need not wait for any longer: it succeeded, or it
\* is a task that failed and whose on_failure handler returned ignore
Done(n) ==
    IF graph.nodes[n].state = TASK_SUCCEEDED THEN TRUE
    ELSE /\ graph.nodes[n].kind = "task"
         /\ graph.nodes[n].state = TASK_FAILED
         /\ CallHandler(HandlerNamed(graph.nodes[n].on_failure), graph.nodes[n]).action
                = HANDLER_IGNORE

\* a pending task or subgraph may run: it is at top level or in a started
\* subgraph, and everything it waits for is done
Runnable(n) ==
    /\ n \in graph.tasks
    /\ graph.nodes[n].state = TASK_PENDING
    /\ IF graph.nodes[n].containing_subgraph = NoSubgraph THEN TRUE
       ELSE graph.nodes[graph.nodes[n].containing_subgraph].state = TASK_STARTED
    /\ \A d \in graph.deps : d[1] = n => Done(d[2])

\* graph.execute(): what the graph's dependencies let run.  A subgraph starts
\* once every task it waits for is done
SubgraphStart(subgraph) ==
    /\ Executing
    /\ Runnable(subgraph)
    /\ graph.nodes[subgraph].kind = "subgraph"
    /\ graph' = [graph EXCEPT !.nodes[subgraph].state = TASK_STARTED]
    /\ UNCHANGED <<instances, node_instances, intact_nodes, subgraphs, phase,
                   handler_results, taskVars>>

\* a task of a started subgraph runs once every task it waits for is done
TaskRun(task) ==
    /\ Executing
    /\ Runnable(task)
    /\ graph.nodes[task].kind = "task"
    /\ graph' = [graph EXCEPT !.nodes[task].state = TASK_SUCCEEDED]
    /\ UNCHANGED <<instances, node_instances, intact_nodes, subgraphs, phase,
                   handler_results, taskVars>>

\* a task runs and fails for good: when its on_failure handler returns ignore
\* the execution goes on, otherwise the subgraph it is in fails with it
TaskFail(task) ==
    /\ Executing
    /\ Runnable(task)
    /\ graph.nodes[task].kind = "task"
    /\ Cardinality({n \in graph.tasks : graph.nodes[n].kind = "task"
                                          /\ graph.nodes[n].state = TASK_FAILED})
           < MaxFailures
    /\ LET containing == graph.nodes[task].containing_subgraph
           failed == [graph EXCEPT !.nodes[task].state = TASK_FAILED]
       IN  graph' = IF CallHandler(HandlerNamed(graph.nodes[task].on_failure),
                                   graph.nodes[task]).action = HANDLER_IGNORE
                    THEN failed
                    ELSE [failed EXCEPT !.nodes[containing].failed_task = task,
                                        !.nodes[containing].state = TASK_FAILED]
    /\ UNCHANGED <<instances, node_instances, intact_nodes, subgraphs, phase,
                   handler_results, taskVars>>

\* a started subgraph finishes once all its tasks are done
SubgraphFinish(subgraph) ==
    /\ Executing
    /\ subgraph \in graph.tasks
    /\ graph.nodes[subgraph].kind = "subgraph"
    /\ graph.nodes[subgraph].state = TASK_STARTED
    /\ \A t \in graph.nodes[subgraph].tasks : Done(t)
    /\ graph' = [graph EXCEPT !.nodes[subgraph].state = TASK_SUCCEEDED]
    /\ UNCHANGED <<instances, node_instances, intact_nodes, subgraphs, phase,
                   handler_results, taskVars>>

\* a LifecycleProcessor over a, which is transitioning and a host or not, and
\* b and c, each transitioning, intact or in neither collection; a may relate
\* to b and c and b to c
WiringInit ==
    /\ TaskIdle
    /\ \E ra \in {<<>>, <<"b">>, <<"b", "c">>}, rb \in {<<>>, <<"c">>},
          host \in BOOLEAN :
           instances = [i \in InstanceIds |->
                           IF i = "a"
                           THEN IF host THEN LegacyHostInstance(ra) ELSE PlainInstance(ra)
                           ELSE PlainInstance(IF i = "b" THEN rb ELSE <<>>)]
    /\ \E active \in SUBSET InstanceIds, intact \in SUBSET InstanceIds :
           /\ "a" \in active
           /\ active \cap intact = {}
           /\ node_instances = active
           /\ intact_nodes = intact
    /\ graph = EmptyGraph
    /\ subgraphs = <<>>
    /\ phase = "constructed"
    /\ handler_results = <<>>

WiringNext ==
    \/ \E install \in BOOLEAN : ProcessNodeInstances(install)
    \/ \E s \in graph.tasks : SubgraphStart(s)
    \/ \E t \in graph.tasks : TaskRun(t)
    \/ \E s \in graph.tasks : SubgraphFinish(s)

SpecWiring == WiringInit /\ [][WiringNext]_vars

-----------------------------------------------------------------------------
(* The execution of one node instance's install, uninstall or reinstall *)
(* subgraph                                                             *)

\* install_node_instance_subgraph(instance, graph),
\* uninstall_node_instance_subgraph(instance, graph) or
\* reinstall_node_instance_subgraph(instance, graph) on an empty graph, and the
\* start of graph.execute()
BuildSubgraph(builder) ==
    /\ phase = "building"
    /\ graph' = IF builder = "install"
                THEN install_node_instance_subgraph(graph, "a", instances["a"], NoSubgraph)
                ELSE IF builder = "uninstall"
                THEN uninstall_node_instance_subgraph(graph, "a", instances["a"], NoSubgraph)
                ELSE reinstall_node_instance_subgraph(graph, "a", instances["a"], NoSubgraph)
    /\ subgraphs' = [i \in {"a"} |-> NextId(graph)]
    /\ phase' = builder
    /\ UNCHANGED <<instances, node_instances, intact_nodes, handler_results, taskVars>>

\* a node instance a, a host or not, with a relationship to b, and an empty graph
ExecuteInit ==
    /\ TaskIdle
    /\ \E x \in {PlainInstance(<<"b">>), LegacyHostInstance(<<"b">>)} :
           instances = [i \in {"a", "b"} |-> IF i = "a" THEN x ELSE PlainInstance(<<>>)]
    /\ node_instances = {"a"}
    /\ intact_nodes = {}
    /\ graph = EmptyGraph
    /\ subgraphs = <<>>
    /\ phase = "building"
    /\ handler_results = <<>>

ExecuteStep ==
    \/ \E s \in graph.tasks : SubgraphStart(s)
    \/ \E t \in graph.tasks : TaskRun(t)
    \/ \E t \in graph.tasks : TaskFail(t)
    \/ \E s \in graph.tasks : SubgraphFinish(s)

ExecuteNext ==
    \/ \E builder \in {"install", "uninstall", "reinstall"} : BuildSubgraph(builder)
    \/ ExecuteStep

SpecExecute == ExecuteInit /\ [][ExecuteNext]_vars

\* the execution of an uninstall subgraph, graph.execute() not stopping while
\* something can run
UninstallNext ==
    \/ BuildSubgraph("uninstall")
    \/ ExecuteStep

SpecUninstallFair == ExecuteInit /\ [][UninstallNext]_vars /\ WF_vars(ExecuteStep)

-----------------------------------------------------------------------------
(* lifecycle.py: reinstall_node_instances *)

\* graph.execute() has returned: every subgraph of the graph has finished
ExecuteReturned ==
    \A n \in graph.tasks :
        graph.nodes[n].kind = "subgraph" => graph.nodes[n].state = TASK_SUCCEEDED

\* reinstall_node_instances: processor.uninstall(), up to the start of
\* graph.execute()
ReinstallUninstall ==
    /\ phase = "constructed"
    /\ graph' = process_node_instances(FALSE).graph
    /\ subgraphs' = process_node_instances(FALSE).subgraphs
    /\ phase' = "uninstall"
    /\ UNCHANGED <<instances, node_instances, intact_nodes, handler_results, taskVars>>

\* reinstall_node_instances calling processor.install() without waiting for
\* the uninstall's graph.execute() to return
ReinstallInstall_no_wait ==
    /\ phase = "uninstall"
    /\ graph' = process_node_instances(TRUE).graph
    /\ subgraphs' = process_node_instances(TRUE).subgraphs
    /\ phase' = "install"
    /\ UNCHANGED <<instances, node_instances, intact_nodes, handler_results, taskVars>>

\* reinstall_node_instances: processor.install() once processor.uninstall()
\* has returned, up to the start of graph.execute()
ReinstallInstall ==
    /\ phase = "uninstall"
    /\ ExecuteReturned
    /\ graph' = process_node_instances(TRUE).graph
    /\ subgraphs' = process_node_instances(TRUE).subgraphs
    /\ phase' = "install"
    /\ UNCHANGED <<instances, node_instances, intact_nodes, handler_results, taskVars>>

\* a LifecycleProcessor over a, related to b, with b transitioning, intact or
\* in neither collection
ReinstallInit ==
    /\ TaskIdle
    /\ instances = [i \in {"a", "b"} |->
                        PlainInstance(IF i = "a" THEN <<"b">> ELSE <<>>)]
    /\ \E c \in {[active |-> {"a"}, intact |-> {}], [active |-> {"a"}, intact |-> {"b"}],
                  [active |-> {"a", "b"}, intact |-> {}]} :
           /\ node_instances = c.active
           /\ intact_nodes = c.intact
    /\ graph = EmptyGraph
    /\ subgraphs = <<>>
    /\ phase = "constructed"
    /\ handler_results = <<>>

ReinstallNext ==
    \/ ReinstallUninstall
    \/ ReinstallInstall
    \/ ExecuteStep

SpecReinstall == ReinstallInit /\ [][ReinstallNext]_vars

-----------------------------------------------------------------------------
(* The task specification: one task, local or remote, with any failure handler *)

TaskInit ==
    /\ tasks \in [TaskIds ->
                    {WorkflowTask(k, NoHandler, h, DEFAULT_TOTAL_RETRIES,
                                  DEFAULT_RETRY_INTERVAL) :
                        k \in {KIND_LOCAL, KIND_REMOTE}, h \in OnFailureHandlers}]
    /\ pc = [t \in TaskIds |-> "idle"]
    /\ calls = [t \in TaskIds |-> 0]
    /\ local_result = [t \in TaskIds |-> None]
    /\ local_reg = [t \in TaskIds |-> {}]
    /\ cache = <<>>
    /\ registered \in [Targets -> SUBSET OpNames]
    /\ queries = [t \in TaskIds |-> 0]
    /\ sent_events = {}
    /\ dispatched = {}
    /\ celery = [t \in TaskIds |-> None]
    /\ ret = NoCall
    /\ LifeIdle

TaskNext ==
    \/ \E t \in TaskIds, s \in SetStateInputs : SetState(t, s)
    \/ \E t \in TaskIds : LocalApplyBegin(t)
    \/ \E t \in TaskIds, p \in Payloads : LocalCall(t, p)
    \/ \E t \in TaskIds : LocalApplyReturn(t)
    \/ \E t \in TaskIds : LocalApplyRaise(t)
    \/ \E t \in TaskIds : RemoteVerifyCached(t)
    \/ \E t \in TaskIds : RemoteQuery(t)
    \/ \E t \in TaskIds : RemoteStore(t)
    \/ \E t \in TaskIds : RemoteSendEvent(t)
    \/ \E t \in TaskIds : RemoteDispatch(t)
    \/ \E t \in TaskIds : RemoteSetSent(t)
    \/ \E t \in TaskIds : RemoteStoreResult(t)
    \/ \E t \in TaskIds, p \in Payloads : CeleryFinish(t, p)
    \/ \E g \in Targets, n \in SUBSET OpNames : RegisteredChange(g, n)
    \/ \E t \in TaskIds : HandleTaskTerminated(t)
    \/ \E t \in TaskIds : HandleTaskFailed(t)

Spec == TaskInit /\ [][TaskNext]_vars

-----------------------------------------------------------------------------
(* Retried tasks: duplicate() and the engine that re-executes a task.  The  *)
(* engine (handling a terminated task, the retry budget, adding the         *)
(* duplicate) is the task graph's, which is not in the two files; it        *)
(* follows the retry budget semantics of the specification.                 *)

\* the most tasks one chain of retries creates
MaxAttempts == 5

\* a cloudify_context dict: ref is the identity of the dict object (two tasks
\* holding the same ref hold the same dict), task_id is its 'task_id' entry
CloudifyContext(ref, task_id) == [ref |-> ref, task_id |-> task_id]

\* RemoteWorkflowTask.__init__
RemoteWorkflowTask(cloudify_context, task_id, info, on_success, on_failure, total_retries, retry_interval) ==
    WorkflowTask(KIND_REMOTE, on_success, on_failure, total_retries, retry_interval)
        @@ [id |-> task_id, info |-> info, cloudify_context |-> Some(cloudify_context)]

\* LocalWorkflowTask.__init__: the id is the uuid the base class generates
LocalWorkflowTask(task_id, info, on_success, on_failure, total_retries, retry_interval) ==
    WorkflowTask(KIND_LOCAL, on_success, on_failure, total_retries, retry_interval)
        @@ [id |-> task_id, info |-> info, cloudify_context |-> None]

\* duplicate() that starts the duplicate's retry counter again
duplicate_reset_retries(task, fresh_id) ==
    IF is_local(task)
    THEN LocalWorkflowTask(fresh_id, task.info, task.on_success, task.on_failure,
                           task.total_retries, task.retry_interval)
    ELSE RemoteWorkflowTask([task.cloudify_context[1] EXCEPT !.task_id = fresh_id],
                            fresh_id, task.info, task.on_success, task.on_failure,
                            task.total_retries, task.retry_interval)

\* LocalWorkflowTask.duplicate / RemoteWorkflowTask.duplicate: the task they
\* return, fresh_id being the uuid generated for it.  The remote duplicate is
\* built on the original's cloudify_context dict, whose 'task_id' it then sets.
duplicate(task, fresh_id) ==
    IF is_local(task)
    THEN [LocalWorkflowTask(fresh_id, task.info, task.on_success, task.on_failure,
                            task.total_retries, task.retry_interval)
             EXCEPT !.current_retries = task.current_retries]
    ELSE [RemoteWorkflowTask([task.cloudify_context[1] EXCEPT !.task_id = fresh_id],
                             fresh_id, task.info, task.on_success, task.on_failure,
                             task.total_retries, task.retry_interval)
             EXCEPT !.current_retries = task.current_retries]

\* dup.cloudify_context['task_id'] = dup.id, as the tasks T that hold the same
\* dict object see it
ContextWrite(T, ref, task_id) ==
    [i \in DOMAIN T |->
        IF is_local(T[i]) THEN T[i]
        ELSE IF T[i].cloudify_context[1].ref = ref
             THEN [T[i] EXCEPT !.cloudify_context = Some(CloudifyContext(ref, task_id))]
             ELSE T[i]]

\* the tasks after task.duplicate() has run: the duplicate under its fresh id,
\* and the others as the call leaves them
AfterDuplicate(T, t, fresh_id) ==
    Put(IF is_local(T[t]) THEN T
        ELSE ContextWrite(T, T[t].cloudify_context[1].ref, fresh_id),
        fresh_id, duplicate(T[t], fresh_id))

\* a retry the engine honours whatever the budget is
RetryHonoured_unbounded(task, handler_result) == TRUE

\* the retry budget: a retry outcome is honoured while current_retries is below
\* total_retries, or total_retries is infinite, or the outcome ignores the budget
RetryHonoured(task, handler_result) ==
    \/ task.total_retries = INFINITE_TOTAL_RETRIES
    \/ task.current_retries < task.total_retries
    \/ handler_result.ignore_total_retries

\* what the engine makes of a terminated task's outcome: an exhausted retry
\* becomes a failure
Resolved(task, handler_result) ==
    IF handler_result.action = HANDLER_RETRY /\ ~RetryHonoured(task, handler_result)
    THEN HandlerResult_fail
    ELSE handler_result

\* the task the engine is executing: the last one created
Latest == Cardinality(DOMAIN tasks)

\* the worker's result reaches the engine, which sets the remote task's state
TaskEnded(t) ==
    /\ is_remote(tasks[t])
    /\ pc[t] = "idle"
    /\ tasks[t].state = TASK_SENT
    /\ celery[t] # None
    /\ tasks' = [tasks EXCEPT ![t].state = IF celery[t][1].tag = "exc"
                                           THEN TASK_FAILED ELSE TASK_SUCCEEDED]
    /\ UNCHANGED <<pc, calls, local_result, local_reg, cache, registered, queries,
                   sent_events, dispatched, celery, ret, lifeVars>>

\* the engine handles the terminated task: task.handle_task_terminated(), then
\* the retry budget
HandleTerminated(t) ==
    /\ pc[t] = "idle"
    /\ tasks[t].state \in {TASK_SUCCEEDED, TASK_FAILED}
    /\ t \notin DOMAIN handler_results
    /\ LET handler_result == handle_task_terminated(tasks[t], celery[t])
           resolved == Resolved(tasks[t], handler_result)
       IN  /\ handler_results' = Put(handler_results, t, resolved)
           /\ ret' = Returned("handle_task_terminated", t, Some(handler_result), None)
           /\ pc' = [pc EXCEPT ![t] = IF resolved.action = HANDLER_RETRY
                                      THEN "retry" ELSE "idle"]
    /\ UNCHANGED <<tasks, calls, local_result, local_reg, cache, registered, queries,
                   sent_events, dispatched, celery, instances, node_instances,
                   intact_nodes, graph, subgraphs, phase, ctxVars,
                   agentVars>>

\* new_task = task.duplicate()
RetryDuplicate(t) ==
    /\ pc[t] = "retry"
    /\ Latest < MaxAttempts
    /\ LET new == Latest + 1
       IN  /\ tasks' = AfterDuplicate(tasks, t, new)
           /\ pc' = Put([pc EXCEPT ![t] = "duplicated"], new, "new")
           /\ calls' = Put(calls, new, 0)
           /\ local_result' = Put(local_result, new, None)
           /\ local_reg' = Put(local_reg, new, {})
           /\ queries' = Put(queries, new, 0)
           /\ celery' = Put(celery, new, None)
           /\ ret' = Returned("duplicate", t, Some(new), None)
    /\ UNCHANGED <<cache, registered, sent_events, dispatched, lifeVars>>

\* the duplicate replaces the task in the graph; a retry that ignores the
\* budget leaves the retry counter as it is, any other one counts
RetryAdd(t) ==
    /\ pc[t] = "duplicated"
    /\ tasks' = [tasks EXCEPT ![t + 1].current_retries =
                    IF handler_results[t].ignore_total_retries THEN @ ELSE @ + 1]
    /\ pc' = [pc EXCEPT ![t] = "idle", ![t + 1] = "idle"]
    /\ UNCHANGED <<calls, local_result, local_reg, cache, registered, queries,
                   sent_events, dispatched, celery, ret, lifeVars>>

\* what the operation ends with in this specification: a falsy or a truthy
\* value, or an error
PollPayloads == {Val(0), Val(1), Exc("Exception", None)}

\* the budgets of the first task: infinite, none, three
TotalRetriesValues == {INFINITE_TOTAL_RETRIES, 0, 3}

\* one task, local or remote, polling (the host's get_state task) or not, whose
\* failures are retried within the budget or ignoring it; the worker has the
\* operation registered
RetryInit ==
    /\ \E k \in {KIND_LOCAL, KIND_REMOTE},
          s \in {NoHandler, NodeGetStateHandler},
          f \in {RetryFailureHandler, CustomHandler(HandlerResult_retry(TRUE, None))},
          n \in TotalRetriesValues,
          info \in {None, Some("get_state")} :
            tasks = [t \in {1} |->
                        IF k = KIND_LOCAL
                        THEN LocalWorkflowTask(1, info, s, f, n, DEFAULT_RETRY_INTERVAL)
                        ELSE RemoteWorkflowTask(CloudifyContext(1, 1), 1, info, s, f, n,
                                                DEFAULT_RETRY_INTERVAL)]
    /\ pc = [t \in {1} |-> "idle"]
    /\ calls = [t \in {1} |-> 0]
    /\ local_result = [t \in {1} |-> None]
    /\ local_reg = [t \in {1} |-> {}]
    /\ cache = <<>>
    /\ registered = [g \in Targets |-> OpNames]
    /\ queries = [t \in {1} |-> 0]
    /\ sent_events = {}
    /\ dispatched = {}
    /\ celery = [t \in {1} |-> None]
    /\ ret = NoCall
    /\ LifeIdle

RetryNext ==
    \/ tasks[Latest].state = TASK_PENDING /\ LocalApplyBegin(Latest)
    \/ \E p \in PollPayloads : LocalCall(Latest, p)
    \/ LocalApplyReturn(Latest)
    \/ LocalApplyRaise(Latest)
    \/ tasks[Latest].state = TASK_PENDING /\ RemoteVerifyCached(Latest)
    \/ RemoteQuery(Latest)
    \/ RemoteStore(Latest)
    \/ RemoteSendEvent(Latest)
    \/ RemoteDispatch(Latest)
    \/ RemoteSetSent(Latest)
    \/ RemoteStoreResult(Latest)
    \/ \E p \in PollPayloads : CeleryFinish(Latest, p)
    \/ TaskEnded(Latest)
    \/ HandleTerminated(Latest)
    \/ RetryDuplicate(Latest)
    \/ \E t \in DOMAIN tasks : RetryAdd(t)

SpecRetry == RetryInit /\ [][RetryNext]_vars

-----------------------------------------------------------------------------
(* cloudify.state: current_ctx, the thread-local current context.  The       *)
(* module is not among the files; it is modelled from its tests              *)
(* (tests/test_state.py): set, get_ctx, get_parameters, clear and push.      *)

\* the deepest nesting of push blocks in a thread
MaxDepth == 2

\* the context objects and the parameters the threads use
CtxValues == {"ctx1", "ctx2"}
ParameterValues == {None, Some("params1")}

NotInContext == Exc("NotInContext", None)

\* what set(ctx, parameters) makes current (parameters is None by default)
Context(ctx, parameters) == Some([ctx |-> ctx, parameters |-> parameters])

\* a set that stores the context in one place for all threads
CtxSet_shared(th, ctx, parameters) ==
    /\ pushed[th] = <<>>
    /\ current_ctx' = [u \in Threads |-> Context(ctx, parameters)]
    /\ ret' = Returned("set", th, None, None)
    /\ UNCHANGED <<pushed, tasks, pc, calls, local_result, local_reg, cache, registered,
                   queries, sent_events, dispatched, celery, instances,
                   node_instances, intact_nodes, graph, subgraphs, phase,
                   handler_results, agentVars>>

\* current_ctx.set(ctx, parameters), called outside any push block
CtxSet(th, ctx, parameters) ==
    /\ pushed[th] = <<>>
    /\ current_ctx' = [current_ctx EXCEPT ![th] = Context(ctx, parameters)]
    /\ ret' = Returned("set", th, None, None)
    /\ UNCHANGED <<pushed, tasks, pc, calls, local_result, local_reg, cache, registered,
                   queries, sent_events, dispatched, celery, instances,
                   node_instances, intact_nodes, graph, subgraphs, phase,
                   handler_results, agentVars>>

\* current_ctx.clear(), called outside any push block
CtxClear(th) ==
    /\ pushed[th] = <<>>
    /\ current_ctx' = [current_ctx EXCEPT ![th] = None]
    /\ ret' = Returned("clear", th, None, None)
    /\ UNCHANGED <<pushed, tasks, pc, calls, local_result, local_reg, cache, registered,
                   queries, sent_events, dispatched, celery, instances,
                   node_instances, intact_nodes, graph, subgraphs, phase,
                   handler_results, agentVars>>

\* current_ctx.get_ctx(): the thread's context, NotInContext if it has none
CtxGet(th) ==
    /\ ret' = IF current_ctx[th] = None
              THEN Raised("get_ctx", th, NotInContext)
              ELSE Returned("get_ctx", th, Some(current_ctx[th][1].ctx), None)
    /\ UNCHANGED <<ctxVars, agentVars, tasks, pc, calls, local_result, local_reg, cache, registered,
                   queries, sent_events, dispatched, celery, instances,
                   node_instances, intact_nodes, graph, subgraphs, phase,
                   handler_results, agentVars>>

\* current_ctx.get_parameters(): the thread's parameters, NotInContext if it
\* has no context or no parameters
CtxGetParameters(th) ==
    /\ ret' = IF current_ctx[th] = None
              THEN Raised("get_parameters", th, NotInContext)
              ELSE IF current_ctx[th][1].parameters = None
              THEN Raised("get_parameters", th, NotInContext)
              ELSE Returned("get_parameters", th, current_ctx[th][1].parameters, None)
    /\ UNCHANGED <<ctxVars, agentVars, tasks, pc, calls, local_result, local_reg, cache, registered,
                   queries, sent_events, dispatched, celery, instances,
                   node_instances, intact_nodes, graph, subgraphs, phase,
                   handler_results, agentVars>>

\* entering `with current_ctx.push(ctx, parameters)`: the block keeps what was
\* current and makes ctx and parameters current
PushEnter(th, ctx, parameters) ==
    /\ Len(pushed[th]) < MaxDepth
    /\ pushed' = [pushed EXCEPT ![th] =
                     Append(@, [previous |-> current_ctx[th],
                                ctx |-> ctx, parameters |-> parameters])]
    /\ current_ctx' = [current_ctx EXCEPT ![th] = Context(ctx, parameters)]
    /\ ret' = Returned("push", th, None, None)
    /\ UNCHANGED <<tasks, pc, calls, local_result, local_reg, cache, registered,
                   queries, sent_events, dispatched, celery, instances,
                   node_instances, intact_nodes, graph, subgraphs, phase,
                   handler_results, agentVars>>

\* leaving a push block that clears the context whatever was current before
PushExit_clear(th) ==
    /\ pushed[th] # <<>>
    /\ current_ctx' = [current_ctx EXCEPT ![th] = None]
    /\ pushed' = [pushed EXCEPT ![th] = SubSeq(@, 1, Len(@) - 1)]
    /\ ret' = Returned("exit", th, None, None)
    /\ UNCHANGED <<tasks, pc, calls, local_result, local_reg, cache, registered,
                   queries, sent_events, dispatched, celery, instances,
                   node_instances, intact_nodes, graph, subgraphs, phase,
                   handler_results, agentVars>>

\* leaving the innermost push block, normally or with an error: what was
\* current before it is current again, or nothing if nothing was
PushExit(th) ==
    /\ pushed[th] # <<>>
    /\ current_ctx' = [current_ctx EXCEPT ![th] = pushed[th][Len(pushed[th])].previous]
    /\ pushed' = [pushed EXCEPT ![th] = SubSeq(@, 1, Len(@) - 1)]
    /\ ret' = Returned("exit", th, None, None)
    /\ UNCHANGED <<tasks, pc, calls, local_result, local_reg, cache, registered,
                   queries, sent_events, dispatched, celery, instances,
                   node_instances, intact_nodes, graph, subgraphs, phase,
                   handler_results, agentVars>>

\* no thread has a context, as at the start of each test
ContextInit ==
    /\ TaskIdle
    /\ LifeIdle

ContextNext ==
    \/ \E th \in Threads, c \in CtxValues, p \in ParameterValues : CtxSet(th, c, p)
    \/ \E th \in Threads : CtxClear(th)
    \/ \E th \in Threads : CtxGet(th)
    \/ \E th \in Threads : CtxGetParameters(th)
    \/ \E th \in Threads, c \in CtxValues, p \in ParameterValues : PushEnter(th, c, p)
    \/ \E th \in Threads : PushExit(th)

SpecContext == ContextInit /\ [][ContextNext]_vars

-----------------------------------------------------------------------------
(* The host steps of the builders, for every host configuration *)

\* the operation names the host steps look for in node.operations, and the
\* cloudify_agent names of the same steps
LegacyOperations ==
    {"cloudify.interfaces.worker_installer.install",
     "cloudify.interfaces.plugin_installer.install",
     "cloudify.interfaces.worker_installer.restart",
     "cloudify.interfaces.worker_installer.stop"}
NewerOperations ==
    {"cloudify.interfaces.cloudify_agent.create",
     "cloudify.interfaces.cloudify_agent.install_plugins",
     "cloudify.interfaces.cloudify_agent.restart",
     "cloudify.interfaces.cloudify_agent.stop"}

\* the host instances: any install_agent, remote_execution and plugins to
\* install; the declared operations are any of the legacy names, with or
\* without the cloudify_agent names
HostInstances ==
    {NodeInstance(TRUE, install_agent, remote_execution_false, legacy \cup newer,
                  plugins_to_install, <<>>) :
        install_agent \in BOOLEAN, remote_execution_false \in BOOLEAN,
        plugins_to_install \in BOOLEAN,
        legacy \in SUBSET LegacyOperations, newer \in {{}, NewerOperations}}

\* a host instance a and an empty graph
HostInit ==
    /\ TaskIdle
    /\ \E x \in HostInstances : instances = [i \in {"a"} |-> x]
    /\ node_instances = {"a"}
    /\ intact_nodes = {}
    /\ graph = EmptyGraph
    /\ subgraphs = <<>>
    /\ phase = "building"
    /\ handler_results = <<>>

HostNext ==
    \E builder \in {"install", "uninstall", "reinstall"} : BuildSubgraph(builder)

SpecHost == HostInit /\ [][HostNext]_vars

-----------------------------------------------------------------------------
(* Concurrent registration checks: two remote tasks running apply_async in  *)
(* two threads, sharing RemoteWorkflowTask.cache                            *)

\* the worker queues of the two tasks
CheckTargets == {"w1", "w2"}
CheckTaskIds == {1, 2}

\* a remote task for the operation name on the worker target
RemoteTaskFor(name, target) ==
    [WorkflowTask(KIND_REMOTE, NoHandler, RetryFailureHandler, DEFAULT_TOTAL_RETRIES,
                  DEFAULT_RETRY_INTERVAL)
        EXCEPT !.name = name, !.target = target]

\* task 1 is op_a on w1; task 2 is the same operation on the same worker,
\* another operation on the same worker, or the same operation on another worker
RegistrationInit ==
    /\ \E name \in OpNames, target \in CheckTargets :
          /\ name = "op_a" \/ target = "w1"
          /\ tasks = [t \in CheckTaskIds |->
                         IF t = 1 THEN RemoteTaskFor("op_a", "w1")
                                  ELSE RemoteTaskFor(name, target)]
    /\ pc = [t \in CheckTaskIds |-> "idle"]
    /\ calls = [t \in CheckTaskIds |-> 0]
    /\ local_result = [t \in CheckTaskIds |-> None]
    /\ local_reg = [t \in CheckTaskIds |-> {}]
    /\ cache = <<>>
    /\ registered = [g \in CheckTargets |-> {}]
    /\ queries = [t \in CheckTaskIds |-> 0]
    /\ sent_events = {}
    /\ dispatched = {}
    /\ celery = [t \in CheckTaskIds |-> None]
    /\ ret = NoCall
    /\ LifeIdle

RegistrationNext ==
    \/ \E t \in CheckTaskIds : RemoteVerifyCached(t)
    \/ \E t \in CheckTaskIds : RemoteQuery(t)
    \/ \E t \in CheckTaskIds : RemoteStore(t)
    \/ \E t \in CheckTaskIds : RemoteSendEvent(t)
    \/ \E t \in CheckTaskIds : RemoteDispatch(t)
    \/ \E t \in CheckTaskIds : RemoteSetSent(t)
    \/ \E t \in CheckTaskIds : RemoteStoreResult(t)
    \/ \E g \in CheckTargets, n \in SUBSET OpNames : RegisteredChange(g, n)

SpecRegistration == RegistrationInit /\ [][RegistrationNext]_vars

-----------------------------------------------------------------------------
(* Properties of the task state machine and of the outcome protocol *)

\* the outcome before error classification: the on_failure handler's, or retry
HandlerOutcome(task) ==
    IF task.on_failure = NoHandler
    THEN HandlerResult_retry(FALSE, None)
    ELSE task.on_failure.result

\* a remote task in state failed whose result handle holds an error of class cls
RemoteFailedWith(t, cls) ==
    /\ is_remote(tasks[t])
    /\ tasks[t].state = TASK_FAILED
    /\ tasks[t].async_result # None
    /\ isinstance(celery[t], cls)

\* C1: a failed remote task whose underlying error is a NonRecoverableError is
\* never resolved to retry; where the handler (or the default) yields retry,
\* with any ignore_total_retries and retry_after, the outcome is fail.
NonRecoverableNeverRetried ==
    \A t \in DOMAIN tasks :
        RemoteFailedWith(t, "NonRecoverableError") =>
            LET r == handle_task_failed(tasks[t], celery[t])
            IN  /\ r.action # HANDLER_RETRY
                /\ HandlerOutcome(tasks[t]).action = HANDLER_RETRY
                       => r = HandlerResult_fail

\* C1 witness: handle_task_failed returned fail for such a task although its
\* handler asked for an unconditional, delayed retry
NonRecoverableDowngraded ==
    /\ ret.fn = "handle_task_failed"
    /\ ret.result = Some(HandlerResult_fail)
    /\ RemoteFailedWith(ret.id, "NonRecoverableError")
    /\ HandlerOutcome(tasks[ret.id]).action = HANDLER_RETRY
    /\ HandlerOutcome(tasks[ret.id]).ignore_total_retries
    /\ HandlerOutcome(tasks[ret.id]).retry_after # None

\* C2: with no handler the outcome is retry, with a handler it is the handler's;
\* classification changes it only when it is retry and the task is remote, so
\* fail and ignore, and every outcome of a local task, come back unchanged.
OutcomeResolution ==
    \A t \in DOMAIN tasks :
        LET h == HandlerOutcome(tasks[t])
            r == handle_task_failed(tasks[t], celery[t])
            exception == UnderlyingResult(tasks[t], celery[t])
        IN  /\ tasks[t].on_failure = NoHandler => h.action = HANDLER_RETRY
            /\ r # h => h.action = HANDLER_RETRY /\ is_remote(tasks[t])
            /\ h.action \in {HANDLER_FAIL, HANDLER_IGNORE} => r = h
            /\ is_local(tasks[t]) => r = h
            /\ h.action = HANDLER_FAIL => r.action # HANDLER_RETRY
            /\ (/\ ~isinstance(exception, "NonRecoverableError")
                /\ ~isinstance(exception, "RecoverableError")) => r = h

\* C2 witness: a handler's ignore came back unchanged for a remote task whose
\* result handle holds a NonRecoverableError
IgnoreReturnedUnchanged ==
    /\ ret.fn = "handle_task_failed"
    /\ ret.result = Some(HandlerResult_ignore)
    /\ RemoteFailedWith(ret.id, "NonRecoverableError")

\* C3: a failed remote task whose underlying error is a RecoverableError
\* carrying retry_after = d, and whose handler outcome is retry, resolves to
\* retry with retry_after = d and the handler's ignore_total_retries.
RecoverableCarriesDelay ==
    \A t \in DOMAIN tasks :
        (/\ RemoteFailedWith(t, "RecoverableError")
         /\ HandlerOutcome(tasks[t]).action = HANDLER_RETRY) =>
            LET r == handle_task_failed(tasks[t], celery[t])
            IN  /\ r.action = HANDLER_RETRY
                /\ r.retry_after = celery[t][1].retry_after
                /\ r.ignore_total_retries =
                       HandlerOutcome(tasks[t]).ignore_total_retries

\* C3 witness: the error's delay replaced the different delay the handler gave
DelayCopiedFromError ==
    /\ ret.fn = "handle_task_failed"
    /\ RemoteFailedWith(ret.id, "RecoverableError")
    /\ HandlerOutcome(tasks[ret.id]).action = HANDLER_RETRY
    /\ celery[ret.id][1].retry_after # None
    /\ HandlerOutcome(tasks[ret.id]).retry_after # None
    /\ HandlerOutcome(tasks[ret.id]).retry_after # celery[ret.id][1].retry_after
    /\ ret.result # None
    /\ ret.result[1].action = HANDLER_RETRY
    /\ ret.result[1].retry_after = celery[ret.id][1].retry_after

\* the error a task's failure comes from: the celery result of a remote task,
\* the error its apply_async has just raised for a local one
FailureCause(t) ==
    IF is_remote(tasks[t]) /\ tasks[t].async_result # None THEN celery[t]
    ELSE IF ret.fn = "apply_async" /\ ret.id = t THEN ret.raised
    ELSE None

\* C4: a task failure caused by a non-recoverable error is never resolved to
\* retry, for local tasks as for remote ones: a retry the handler (or the
\* default) asks for is turned into fail.
NonRecoverableAlwaysFails ==
    \A t \in DOMAIN tasks :
        (/\ tasks[t].state = TASK_FAILED
         /\ isinstance(FailureCause(t), "NonRecoverableError")
         /\ HandlerOutcome(tasks[t]).action = HANDLER_RETRY) =>
            handle_task_failed(tasks[t], celery[t]) = HandlerResult_fail

\* the order of the task states: pending, sending, sent, started, then the two
\* terminal states
StateRank(state) ==
    CASE state = TASK_PENDING -> 0
      [] state = TASK_SENDING -> 1
      [] state = TASK_SENT -> 2
      [] state = TASK_STARTED -> 3
      [] state = TASK_SUCCEEDED -> 4
      [] state = TASK_FAILED -> 4

\* C5: no step moves a task to an earlier state or out of a terminal state.
TaskStateMonotonic ==
    [][\A t \in DOMAIN tasks :
          \/ tasks'[t].state = tasks[t].state
          \/ /\ tasks[t].state \notin {TASK_SUCCEEDED, TASK_FAILED}
             /\ StateRank(tasks'[t].state) > StateRank(tasks[t].state)]_vars

\* C6: LocalWorkflowTask.apply_async sets the state to sent and then calls the
\* callable exactly once; it leaves with state succeeded and a handle yielding
\* the returned value, or with state failed and the callable's error raised.
LocalApplyAsyncContract ==
    [][\A t \in DOMAIN tasks :
          /\ (pc[t] = "idle" /\ pc'[t] = "local_call")
                 => tasks'[t].state = TASK_SENT /\ calls'[t] = 0
          /\ (pc[t] = "local_call" /\ pc'[t] # "local_call")
                 => /\ calls'[t] = 1
                    /\ pc'[t] \in {"local_returned", "local_except"}
          /\ (pc[t] \in {"local_returned", "local_except"})
                 => calls'[t] = 1
          /\ (pc[t] = "local_returned" /\ pc'[t] = "idle")
                 => /\ tasks'[t].state = TASK_SUCCEEDED
                    /\ ret' = Returned("apply_async", t, None, tasks'[t].async_result)
                    /\ tasks'[t].async_result # None
                    /\ tasks'[t].async_result[1].result = Some(local_result[t][1].v)
                    /\ local_result[t][1].tag = "value"
          /\ (pc[t] = "local_except" /\ pc'[t] = "idle")
                 => /\ tasks'[t].state = TASK_FAILED
                    /\ ret' = Raised("apply_async", t, local_result[t][1])
                    /\ local_result[t][1].tag = "exc"
          /\ (pc[t] # "idle" /\ is_local(tasks[t]) /\ pc'[t] = "idle")
                 => tasks'[t].state \in {TASK_SUCCEEDED, TASK_FAILED}]_vars

\* C6 witness: a local apply_async has returned a handle yielding a non-zero
\* value, after one call of the callable
LocalReturnedValue ==
    /\ ret.fn = "apply_async"
    /\ ret.id \in DOMAIN tasks
    /\ is_local(tasks[ret.id])
    /\ pc[ret.id] = "idle"
    /\ calls[ret.id] = 1
    /\ tasks[ret.id].state = TASK_SUCCEEDED
    /\ ret.handle # None
    /\ ret.handle[1].result # Some(0)

\* C7: the error RemoteWorkflowTask.apply_async raises when the operation is
\* absent from the worker's registered set after the refresh query is a
\* NonRecoverableError.
MissingOperationIsNonRecoverable ==
    \A t \in DOMAIN tasks :
        (/\ is_remote(tasks[t])
         /\ ret.fn = "apply_async"
         /\ ret.id = t
         /\ ret.raised # None
         /\ queries[t] = 1
         /\ tasks[t].name \notin local_reg[t]) =>
            isinstance(ret.raised, "NonRecoverableError")

-----------------------------------------------------------------------------
(* Failure recovery of install and reinstall subgraphs (SpecRecovery) *)

\* the subgraphs the handler has run on, by where they sit
TopLevelHandled ==
    {s \in DOMAIN handler_results : graph.nodes[s].containing_subgraph = NoSubgraph}
NestedHandled ==
    {s \in DOMAIN handler_results : graph.nodes[s].containing_subgraph # NoSubgraph}

\* the reinstall subgraphs in the graph's history
ReinstallSubgraphs ==
    {n \in DOMAIN graph.nodes :
        graph.nodes[n].kind = "subgraph" /\ graph.nodes[n].arg = "reinstall"}

\* how many top-level failures of its entity led to subgraph n: none for the
\* subgraph install_node_instances built, one more than its predecessor's for
\* a replacement
RECURSIVE Generation(_)
Generation(n) ==
    LET predecessors == {s \in TopLevelHandled :
                            handler_results[s].retried_task = Some(n)}
    IN  IF predecessors = {} THEN 0
        ELSE Generation(CHOOSE s \in predecessors : TRUE) + 1

\* C8: once the handler has run on a subgraph with no containing subgraph, none
\* of that subgraph's own tasks is in the graph, and the result is a retry
\* whose retried_task is a reinstall subgraph built by this run for the same
\* instance, at top level, with current_retries one above the failed
\* subgraph's; the k-th replacement of an instance carries the initial
\* counter (0) plus k
TopLevelFailureRetries ==
    \A s \in TopLevelHandled :
        /\ graph.nodes[s].tasks \cap graph.tasks = {}
        /\ handler_results[s].action = HANDLER_RETRY
        /\ handler_results[s].retried_task # None
        /\ LET n == handler_results[s].retried_task[1]
           IN  /\ n \in ReinstallSubgraphs
               /\ n > s
               /\ \A other \in DOMAIN handler_results \ {s} :
                      handler_results[other].retried_task # Some(n)
               /\ graph.nodes[n].instance = graph.nodes[s].instance
               /\ graph.nodes[n].containing_subgraph = NoSubgraph
               /\ graph.nodes[n].current_retries = graph.nodes[s].current_retries + 1
               /\ graph.nodes[n].current_retries = Generation(n)

\* a replacement of a replacement: two successive top-level failures of an instance
SecondReplacementBuilt ==
    \E s \in TopLevelHandled :
        /\ Generation(s) = 1
        /\ graph.nodes[handler_results[s].retried_task[1]].current_retries = 2

\* C9: once the handler has run on a subgraph nested in a containing subgraph,
\* its result is ignore with no retried_task, the containing subgraph is failed
\* with the nested subgraph's failed_task, and no reinstall subgraph was built
\* for it; the handler's result is a retry only for a subgraph at top level
NestedFailureSurfaces ==
    /\ \A s \in NestedHandled :
           LET containing == graph.nodes[s].containing_subgraph
           IN  /\ handler_results[s].action = HANDLER_IGNORE
               /\ handler_results[s].retried_task = None
               /\ graph.nodes[s].failed_task # NoTask
               /\ graph.nodes[containing].failed_task = graph.nodes[s].failed_task
               /\ graph.nodes[containing].state = TASK_FAILED
    /\ Cardinality(ReinstallSubgraphs) = Cardinality(TopLevelHandled)
    /\ \A s \in DOMAIN handler_results :
           handler_results[s].action = HANDLER_RETRY
               <=> graph.nodes[s].containing_subgraph = NoSubgraph

\* the handler has run on the install subgraph nested in a reinstall subgraph
NestedInstallHandled ==
    \E s \in NestedHandled :
        /\ graph.nodes[s].arg = "install"
        /\ graph.nodes[graph.nodes[s].containing_subgraph].arg = "reinstall"
        /\ graph.nodes[graph.nodes[s].containing_subgraph].failed_task
               = graph.nodes[s].failed_task

-----------------------------------------------------------------------------
(* Dependency wiring (SpecWiring) *)

\* the targets of an instance's relationships that are in node_instances or
\* in intact_nodes
WiredTargets(A) ==
    {instances[A].relationships[r] : r \in 1..Len(instances[A].relationships)}
        \cap (node_instances \cup intact_nodes)

\* the dependencies between the subgraphs of the processor's instances
SubgraphDependencies ==
    {d \in graph.deps : \E i, j \in DOMAIN subgraphs :
                            d = <<subgraphs[i], subgraphs[j]>>}

\* some task of the instance's subgraph has run
HasRun(A) ==
    \E t \in graph.nodes[subgraphs[A]].tasks : graph.nodes[t].state # TASK_PENDING

\* C10: for a node instance A of node_instances, install makes A's subgraph
\* wait for exactly the subgraphs of the targets of A's relationships that are
\* in node_instances or intact_nodes, and uninstall makes exactly those
\* subgraphs wait for A's subgraph (none when A has no relationship or no
\* target is in either collection); no task of the waiting subgraph has run
\* unless the subgraph it waits for has succeeded
WiringFollowsRelationships ==
    phase \in {"install", "uninstall"} =>
        \A A \in node_instances :
            /\ phase = "install" =>
                   /\ {d \in SubgraphDependencies : d[1] = subgraphs[A]}
                          = {<<subgraphs[A], subgraphs[B]>> : B \in WiredTargets(A)}
                   /\ \A B \in WiredTargets(A) :
                          HasRun(A) => graph.nodes[subgraphs[B]].state = TASK_SUCCEEDED
            /\ phase = "uninstall" =>
                   /\ {d \in SubgraphDependencies : d[2] = subgraphs[A]}
                          = {<<subgraphs[B], subgraphs[A]>> : B \in WiredTargets(A)}
                   /\ \A B \in WiredTargets(A) :
                          HasRun(B) => graph.nodes[subgraphs[A]].state = TASK_SUCCEEDED

\* an uninstall in which b, a target of a's relationships, has run its tasks
\* after a's subgraph finished, c being in neither collection
UninstallRanInReverse ==
    /\ phase = "uninstall"
    /\ instances["a"].relationships = <<"b", "c">>
    /\ node_instances = {"a", "b"}
    /\ intact_nodes = {}
    /\ HasRun("b")
    /\ graph.nodes[subgraphs["a"]].state = TASK_SUCCEEDED
    /\ SubgraphDependencies = {<<subgraphs["b"], subgraphs["a"]>>}

-----------------------------------------------------------------------------
(* Failure handling of uninstall tasks (SpecWiring) *)

\* a graph task as a WorkflowTask of the given kind that has failed, with the
\* given result handle
FailedTask(node, kind, async_result) ==
    [WorkflowTask(kind, HandlerNamed(node.on_success), HandlerNamed(node.on_failure),
                  DEFAULT_TOTAL_RETRIES, DEFAULT_RETRY_INTERVAL)
        EXCEPT !.state = TASK_FAILED, !.async_result = async_result]

\* the tasks of an uninstall: those of the uninstall subgraphs and those
\* injected into the stubs of intact instances
UninstallTasks ==
    {n \in graph.tasks : graph.nodes[n].kind = "task"}

-----------------------------------------------------------------------------
(* The order of one instance's steps (SpecExecute, SpecUninstallFair) *)

\* the tasks of a subgraph that a call fn(arg) of the instance or of one of its
\* relationships returned
Steps(subgraph, fn, arg) ==
    {n \in graph.nodes[subgraph].tasks :
        graph.nodes[n].fn = fn /\ graph.nodes[n].arg = arg}

\* the relationship operation tasks of a subgraph, source and target side
RelationshipSteps(subgraph, operation) ==
    Steps(subgraph, "execute_source_operation", operation)
        \cup Steps(subgraph, "execute_target_operation", operation)

\* a task has run: it succeeded or failed
HasEnded(n) == graph.nodes[n].state \in {TASK_SUCCEEDED, TASK_FAILED}

\* no task of the set later has ended unless every task of the set earlier has
Precedes(earlier, later) ==
    (\E n \in later : HasEnded(n)) => (\A m \in earlier : HasEnded(m))

\* the node instance's state has been set to the given one
StateSet(subgraph, state) ==
    \E n \in Steps(subgraph, "set_state", state) :
        graph.nodes[n].state = TASK_SUCCEEDED

\* the steps of an uninstall subgraph end in the order of the sequence
UninstallOrder(subgraph) ==
    /\ Precedes(Steps(subgraph, "set_state", "stopping"),
                Steps(subgraph, "set_state", "stopped"))
    /\ Precedes(Steps(subgraph, "execute_operation", "cloudify.interfaces.lifecycle.stop"),
                Steps(subgraph, "set_state", "stopped"))
    /\ Precedes(Steps(subgraph, "set_state", "stopped"),
                RelationshipSteps(subgraph,
                                  "cloudify.interfaces.relationship_lifecycle.unlink"))
    /\ Precedes(RelationshipSteps(subgraph,
                                  "cloudify.interfaces.relationship_lifecycle.unlink"),
                Steps(subgraph, "set_state", "deleting"))
    /\ Precedes(Steps(subgraph, "set_state", "deleting"),
                Steps(subgraph, "execute_operation", "cloudify.interfaces.lifecycle.delete"))
    /\ Precedes(Steps(subgraph, "execute_operation", "cloudify.interfaces.lifecycle.delete"),
                Steps(subgraph, "set_state", "deleted"))

\* whatever tasks fail, the steps of an uninstall end in the order of the
\* sequence and the subgraph finishes with every task ended
UninstallRunsToEnd ==
    /\ [](phase = "uninstall" => UninstallOrder(subgraphs["a"]))
    /\ (phase = "uninstall")
           ~> (/\ phase = "uninstall"
               /\ graph.nodes[subgraphs["a"]].state = TASK_SUCCEEDED
               /\ \A n \in graph.nodes[subgraphs["a"]].tasks : HasEnded(n))

\* C12: whatever tasks of an uninstall fail, its steps end in the order of the
\* sequence (stopping, stop, stopped, unlink, deleting, delete, deleted) and
\* the node instance's state is eventually set to deleted
UninstallReachesDeleted ==
    /\ [](phase = "uninstall" => UninstallOrder(subgraphs["a"]))
    /\ (phase = "uninstall")
           ~> (phase = "uninstall" /\ StateSet(subgraphs["a"], "deleted"))

\* the position, among the arguments of sequence.add, of the k-th task added
GroupOfTask(groups, k) ==
    LET off[g \in 1..(Len(groups) + 1)] ==
            IF g = 1 THEN 0 ELSE off[g - 1] + Len(groups[g - 1])
    IN  CHOOSE g \in 1..Len(groups) : off[g] < k /\ k <= off[g + 1]

\* the tasks of the subgraph that host_post_start returned
HostPostStartSteps(subgraph, instance) ==
    {n \in graph.nodes[subgraph].tasks :
        \E k \in 1..Len(host_post_start(instance)) :
            /\ graph.nodes[n].fn = host_post_start(instance)[k].fn
            /\ graph.nodes[n].arg = host_post_start(instance)[k].arg}

\* the set_state steps of an install end in the order of the seven states
InstallStates ==
    <<"initializing", "creating", "created", "configuring", "configured", "starting",
      "started">>

\* the steps of an install subgraph end in the order of the sequence
InstallOrder(subgraph, instance) ==
    /\ \A i \in 1..(Len(InstallStates) - 1) :
           Precedes(Steps(subgraph, "set_state", InstallStates[i]),
                    Steps(subgraph, "set_state", InstallStates[i + 1]))
    /\ Precedes(Steps(subgraph, "set_state", "creating"),
                Steps(subgraph, "execute_operation", "cloudify.interfaces.lifecycle.create"))
    /\ Precedes(Steps(subgraph, "execute_operation", "cloudify.interfaces.lifecycle.create"),
                Steps(subgraph, "set_state", "created"))
    /\ Precedes(RelationshipSteps(subgraph,
                                  "cloudify.interfaces.relationship_lifecycle.preconfigure"),
                Steps(subgraph, "execute_operation",
                      "cloudify.interfaces.lifecycle.configure"))
    /\ Precedes(RelationshipSteps(subgraph,
                                  "cloudify.interfaces.relationship_lifecycle.postconfigure"),
                Steps(subgraph, "execute_operation", "cloudify.interfaces.lifecycle.start"))
    /\ is_host_node(instance) =>
           Precedes(Steps(subgraph, "execute_operation",
                          "cloudify.interfaces.lifecycle.start"),
                    HostPostStartSteps(subgraph, instance))
    /\ Precedes(Steps(subgraph, "execute_operation", "cloudify.interfaces.monitoring.start")
                    \cup RelationshipSteps(
                             subgraph, "cloudify.interfaces.relationship_lifecycle.establish"),
                Steps(subgraph, "set_state", "started"))

\* a task ends only when every task of an earlier argument of sequence.add has
\* succeeded: only the members of one forkjoin interleave
OnlyForkjoinInterleaves(subgraph, groups) ==
    \A m, n \in graph.nodes[subgraph].tasks :
        (/\ GroupOfTask(groups, m - subgraph) < GroupOfTask(groups, n - subgraph)
         /\ HasEnded(n))
            => graph.nodes[m].state = TASK_SUCCEEDED

\* C13: in every execution of an instance's install subgraph the set_state steps
\* end in the order initializing, creating, created, configuring, configured,
\* starting, started; create ends after creating and before created; every
\* preconfigure operation before configure; every postconfigure operation
\* before start; start before the host post-start steps; monitoring start and
\* every establish operation before started; and only the members of one
\* forkjoin interleave
InstallStepsInOrder ==
    phase = "install" =>
        /\ InstallOrder(subgraphs["a"], instances["a"])
        /\ OnlyForkjoinInterleaves(
               subgraphs["a"],
               SelectSeq(InstallSequence(instances["a"]), LAMBDA g : g # <<>>))

\* the install subgraph of a host with a relationship has run to its end
HostInstallFinished ==
    /\ phase = "install"
    /\ is_host_node(instances["a"])
    /\ graph.nodes[subgraphs["a"]].state = TASK_SUCCEEDED
    /\ StateSet(subgraphs["a"], "started")
    /\ RelationshipSteps(subgraphs["a"],
                         "cloudify.interfaces.relationship_lifecycle.establish") # {}

\* the tasks of a list of sequence.add arguments, one after the other
RECURSIVE Flattened(_)
Flattened(groups) ==
    IF groups = <<>> THEN <<>> ELSE Head(groups) \o Flattened(Tail(groups))

\* the tasks of a subgraph in the order they were added to it, each as the
\* call that returned it
TaskSequence(subgraph) ==
    [k \in 1..Cardinality(graph.nodes[subgraph].tasks) |->
        TaskOf(graph.nodes[subgraph + k].fn, graph.nodes[subgraph + k].arg,
               graph.nodes[subgraph + k].rel)]

\* the subgraph of the given name nested in a reinstall subgraph
Nested(reinstall_subgraph, name) ==
    CHOOSE n \in graph.nodes[reinstall_subgraph].tasks :
        graph.nodes[n].kind = "subgraph" /\ graph.nodes[n].arg = name

\* the event task of a reinstall subgraph
ReinstallEvent(reinstall_subgraph) ==
    CHOOSE n \in graph.nodes[reinstall_subgraph].tasks : graph.nodes[n].kind = "task"

\* a subgraph or one of its tasks has begun
HasBegun(subgraph) ==
    \/ graph.nodes[subgraph].state # TASK_PENDING
    \/ \E n \in graph.nodes[subgraph].tasks : graph.nodes[n].state # TASK_PENDING

\* C14: a reinstall subgraph holds the re-run event, the instance's uninstall
\* subgraph and its install subgraph, whose tasks are those of the uninstall
\* sequence and of the install sequence; the uninstall subgraph begins only
\* after the event, no install task begins before the uninstall subgraph has
\* finished, and inside each the steps keep their order
ReinstallIsUninstallThenInstall ==
    phase = "reinstall" =>
        LET reinstall_subgraph == subgraphs["a"]
            uninstall_subgraph == Nested(reinstall_subgraph, "uninstall")
            install_subgraph == Nested(reinstall_subgraph, "install")
            event == ReinstallEvent(reinstall_subgraph)
        IN  /\ Cardinality(graph.nodes[reinstall_subgraph].tasks) = 3
            /\ graph.nodes[event].fn = "send_event"
            /\ graph.nodes[event].arg
                   = "Node lifecycle failed. Attempting to re-run node lifecycle"
            /\ TaskSequence(uninstall_subgraph)
                   = Flattened(UninstallSequence(instances["a"]))
            /\ TaskSequence(install_subgraph)
                   = Flattened(InstallSequence(instances["a"]))
            /\ HasBegun(uninstall_subgraph) => graph.nodes[event].state = TASK_SUCCEEDED
            /\ HasBegun(install_subgraph)
                   => graph.nodes[uninstall_subgraph].state = TASK_SUCCEEDED
            /\ UninstallOrder(uninstall_subgraph)
            /\ InstallOrder(install_subgraph, instances["a"])

\* a reinstall subgraph has run to its end, a task of its uninstall having failed
ReinstallFinished ==
    /\ phase = "reinstall"
    /\ graph.nodes[subgraphs["a"]].state = TASK_SUCCEEDED
    /\ StateSet(Nested(subgraphs["a"], "install"), "started")
    /\ \E n \in graph.nodes[Nested(subgraphs["a"], "uninstall")].tasks :
           graph.nodes[n].state = TASK_FAILED

-----------------------------------------------------------------------------
(* reinstall_node_instances (SpecReinstall) *)

\* the instances the graph holds a top-level subgraph of the given name for
InstancesWith(name) ==
    {graph.nodes[n].instance :
        n \in {m \in DOMAIN graph.nodes :
                  /\ graph.nodes[m].kind = "subgraph"
                  /\ graph.nodes[m].arg = name
                  /\ graph.nodes[m].containing_subgraph = NoSubgraph}}

\* what the uninstall built: its subgraphs, stubs and their tasks
BuiltByUninstall ==
    {n \in DOMAIN graph.nodes :
        \/ graph.nodes[n].kind = "subgraph" /\ graph.nodes[n].arg = "uninstall"
        \/ graph.nodes[n].on_failure = IGNORE_HANDLER}

\* C15: reinstall_node_instances builds the uninstall subgraph of every node
\* instance of node_instances, and an install subgraph exists only when all
\* the uninstall built has ended and every uninstall subgraph has finished;
\* the install subgraphs are those of the same node_instances, and the stubs
\* of both phases those of the same intact_nodes
UninstallAllThenInstallAll ==
    /\ phase \in {"uninstall", "install"} =>
           /\ InstancesWith("uninstall") = node_instances
           /\ InstancesWith("stub") = intact_nodes
    /\ phase = "uninstall" => InstancesWith("install") = {}
    /\ phase = "install" =>
           /\ InstancesWith("install") = node_instances
           /\ Cardinality({n \in DOMAIN graph.nodes : graph.nodes[n].arg = "stub"})
                  = 2 * Cardinality(intact_nodes)
           /\ \A n \in BuiltByUninstall :
                  IF graph.nodes[n].kind = "subgraph"
                  THEN graph.nodes[n].state = TASK_SUCCEEDED
                  ELSE HasEnded(n)

\* the install of a reinstall of a and b is running, after an uninstall in
\* which a task failed
InstallAfterUninstall ==
    /\ phase = "install"
    /\ node_instances = {"a", "b"}
    /\ \E n \in BuiltByUninstall : graph.nodes[n].state = TASK_FAILED
    /\ HasRun("a")

-----------------------------------------------------------------------------
(* Retried tasks (SpecRetry) *)

\* the engine has handled the terminated task t
Handled(t) == t \in DOMAIN handler_results

\* what the succeeded task t reported
ResultOf(t) == AsyncResultGet(tasks[t], celery[t])

\* how often the operation of task t has been executed: the calls of the local
\* callable, the dispatch to the worker
Executions(t) == IF is_local(tasks[t]) THEN calls[t] ELSE IF t \in dispatched THEN 1 ELSE 0

\* task t is a get_state poll that has succeeded and has been handled
Polled(t) ==
    /\ t \in DOMAIN tasks
    /\ Handled(t)
    /\ tasks[t].on_success = NodeGetStateHandler
    /\ tasks[t].state = TASK_SUCCEEDED

\* C16: a handled get_state poll that reported a falsy result resolves to retry
\* with ignore_total_retries set, whatever total_retries is, and its duplicate
\* enters the graph with the same retry counter; one that reported a truthy
\* result resolves to continue and nothing is executed after it; for the results
\* false, false, true there are exactly three tasks, each executed once, and the
\* retry counter is still 0
WaitForStartPolls ==
    /\ \A t \in DOMAIN tasks :
          Polled(t) =>
              IF Truthy(ResultOf(t))
              THEN /\ handler_results[t] = HandlerResult_cont
                   /\ Latest = t
              ELSE /\ handler_results[t] = HandlerResult_retry(TRUE, None)
                   /\ (t + 1 \in DOMAIN tasks /\ pc[t] = "idle") =>
                          tasks[t + 1].current_retries = tasks[t].current_retries
    /\ (/\ Polled(1) /\ Polled(2) /\ Polled(3)
        /\ ~Truthy(ResultOf(1)) /\ ~Truthy(ResultOf(2)) /\ Truthy(ResultOf(3))) =>
           /\ Latest = 3
           /\ \A u \in 1..3 : Executions(u) = 1 /\ tasks[u].current_retries = 0

\* a task without any retry budget has polled false, false, true and the third
\* poll has been handled
PolledUntilStarted ==
    /\ Polled(1) /\ Polled(2) /\ Polled(3)
    /\ tasks[1].total_retries = 0
    /\ ~Truthy(ResultOf(1)) /\ ~Truthy(ResultOf(2)) /\ Truthy(ResultOf(3))
    /\ handler_results[3].action = HANDLER_CONTINUE

\* duplicate() of task t has just returned: the duplicate is tasks[t + 1], as
\* the call built it
Duplicated(t) == t \in DOMAIN tasks /\ pc[t] = "duplicated"

\* C17: the task duplicate() returns, for a local and for a remote task, has an
\* id that differs from the original's (and from every earlier task's), is
\* pending with no result handle, is of the original's kind, and has the
\* original's current_retries, total_retries, retry_interval, info, on_success
\* and on_failure
DuplicateIsFreshCopy ==
    \A t \in DOMAIN tasks :
        Duplicated(t) =>
            LET dup == tasks[t + 1]
            IN  /\ \A u \in 1..t : dup.id # tasks[u].id
                /\ dup.state = TASK_PENDING
                /\ dup.async_result = None
                /\ dup.kind = tasks[t].kind
                /\ dup.current_retries = tasks[t].current_retries
                /\ dup.total_retries = tasks[t].total_retries
                /\ dup.retry_interval = tasks[t].retry_interval
                /\ dup.info = tasks[t].info
                /\ dup.on_success = tasks[t].on_success
                /\ dup.on_failure = tasks[t].on_failure

\* a failed remote task that has been retried before, and carries an info, has
\* been duplicated
RetriedTaskDuplicated ==
    \E t \in DOMAIN tasks :
        /\ Duplicated(t)
        /\ is_remote(tasks[t])
        /\ tasks[t].state = TASK_FAILED
        /\ tasks[t].async_result # None
        /\ tasks[t].current_retries > 0
        /\ tasks[t].info # None

\* C18: duplicate() leaves the task it is called on as it was: id, state,
\* result handle, retry counters, handlers and, for a remote task, the
\* cloudify_context with its task_id
DuplicateLeavesOriginal ==
    [][\A t \in DOMAIN tasks :
          (pc[t] = "retry" /\ pc'[t] = "duplicated") => tasks'[t] = tasks[t]]_vars

\* what the handlers returned for the handled task t, before the budget
HandlerReturned(t) == handle_task_terminated(tasks[t], celery[t])

\* task t has failed, has been handled, and its handlers asked for a retry
\* that does not ignore the budget
FailedAskingRetry(t) ==
    /\ t \in DOMAIN tasks
    /\ Handled(t)
    /\ tasks[t].state = TASK_FAILED
    /\ HandlerReturned(t).action = HANDLER_RETRY
    /\ ~HandlerReturned(t).ignore_total_retries

\* the retries before task t that counted against the budget
CountedRetries(t) ==
    Cardinality({u \in 1..(t - 1) :
                    /\ handler_results[u].action = HANDLER_RETRY
                    /\ ~handler_results[u].ignore_total_retries})

-----------------------------------------------------------------------------
(* The registration check of a remote task (Spec) *)

\* the step of task t's registration check that a transition takes, if any
CheckBegins(t) == is_remote(tasks[t]) /\ pc[t] = "idle" /\ pc'[t] # "idle"
CheckQueries(t) == pc[t] = "query" /\ pc'[t] # "query"
CheckDecides(t) == pc[t] = "store" /\ pc'[t] # "store"

\* C20: a registration check issues no query when the task's name is in the
\* set cached for its target and goes on to send the task; otherwise (target
\* not cached, or name not in the cached set) it issues exactly one query,
\* which reads what the worker has registered at that time, and it raises only
\* if the name is not in that result; apply_async of a remote task raises the
\* missing task error in no other case
RegistrationCheckQueries ==
    [][\A t \in DOMAIN tasks :
          /\ CheckBegins(t) =>
                /\ queries'[t] = 0
                /\ IF tasks[t].name \in CachedNames(cache, tasks[t].target)
                   THEN pc'[t] = "send_event"
                   ELSE pc'[t] = "query"
          /\ CheckQueries(t) =>
                /\ pc'[t] = "store"
                /\ queries[t] = 0 /\ queries'[t] = 1
                /\ local_reg'[t] = registered[tasks[t].target]
          /\ CheckDecides(t) =>
                /\ queries'[t] = 1
                /\ IF tasks[t].name \in local_reg[t]
                   THEN pc'[t] = "send_event" /\ ret' = ret
                   ELSE pc'[t] = "idle"
                        /\ ret' = Raised("apply_async", t, MissingTaskError)
          /\ (pc[t] \notin {"idle", "query"}) => queries'[t] = queries[t]
          /\ (is_remote(tasks[t]) /\ ret' # ret /\ ret'.fn = "apply_async"
                 /\ ret'.raised # None) =>
                (CheckDecides(t) /\ tasks[t].name \notin local_reg[t])]_vars

\* the set cached for the target lacks the task's name, and the one query of
\* the check has found the name registered on the worker
StaleCacheRefreshed ==
    \E t \in DOMAIN tasks :
        /\ pc[t] = "store"
        /\ tasks[t].target \in DOMAIN cache
        /\ tasks[t].name \notin cache[tasks[t].target]
        /\ tasks[t].name \in local_reg[t]
        /\ queries[t] = 1

-----------------------------------------------------------------------------
(* Concurrent registration checks (SpecRegistration) *)

\* the cache entry of target g is set or replaced by a transition
EntryWritten(g) ==
    /\ g \in DOMAIN cache'
    /\ IF g \in DOMAIN cache THEN cache'[g] # cache[g] ELSE TRUE

\* C21: with two remote tasks checking their registration concurrently, on the
\* same or on different targets, while the workers' registrations change: a
\* query reads what the worker of the task's own target has registered, the
\* result stays the check's own until it is stored, a cache entry is set or
\* replaced only by a check of a task of that target storing the whole result
\* of its query, no entry is ever removed, and a check rejects its operation
\* only if its own query did not report it
CacheHoldsQueryResults ==
    [][/\ \A t \in DOMAIN tasks :
             /\ (pc[t] = "query" /\ pc'[t] = "store") =>
                    local_reg'[t] = registered[tasks[t].target]
             /\ (pc[t] = "store" /\ pc'[t] = "store") => local_reg'[t] = local_reg[t]
             /\ (pc[t] = "store" /\ pc'[t] = "idle") =>
                    /\ tasks[t].name \notin local_reg[t]
                    /\ queries[t] = 1
       /\ DOMAIN cache \subseteq DOMAIN cache'
       /\ \A g \in DOMAIN cache' :
             EntryWritten(g) =>
                 \E t \in DOMAIN tasks :
                     /\ pc[t] = "store" /\ pc'[t] # "store"
                     /\ tasks[t].target = g
                     /\ cache'[g] = local_reg[t]]_vars

\* two checks of the same target have queried the worker and got different
\* results; the first has stored its result and the second is about to
\* replace it
SecondWriterPending ==
    /\ tasks[1].target = tasks[2].target
    /\ pc[1] = "send_event" /\ queries[1] = 1
    /\ pc[2] = "store"
    /\ tasks[1].target \in DOMAIN cache
    /\ cache[tasks[1].target] = local_reg[1]
    /\ local_reg[2] # local_reg[1]
    /\ local_reg[2] # {}

-----------------------------------------------------------------------------
(* The host steps (SpecHost) *)

\* the operations the tasks of the graph execute
OperationsUsed ==
    {graph.nodes[n].arg :
        n \in {m \in graph.tasks : /\ graph.nodes[m].kind = "task"
                                   /\ graph.nodes[m].fn = "execute_operation"}}

\* the name under the cloudify.interfaces prefix
Interface(name) == "cloudify.interfaces." \o name

\* the steps that exist in two variants: the cloudify_agent name and the
\* worker_installer / plugin_installer name of each
Variants ==
    {<<Interface("cloudify_agent.create"), Interface("worker_installer.install")>>,
     <<Interface("cloudify_agent.install_plugins"), Interface("plugin_installer.install")>>,
     <<Interface("cloudify_agent.restart"), Interface("worker_installer.restart")>>,
     <<Interface("cloudify_agent.stop"), Interface("worker_installer.stop")>>}

\* C22: for each step that exists in two variants and is in the graph built
\* for a host, the task executes the cloudify_agent name if the instance
\* declares that name, and the legacy name otherwise
NewerVariantPreferred ==
    \A v \in Variants :
        (v[1] \in OperationsUsed \/ v[2] \in OperationsUsed) =>
            IF v[1] \in instances["a"].operations
            THEN v[1] \in OperationsUsed /\ v[2] \notin OperationsUsed
            ELSE v[2] \in OperationsUsed /\ v[1] \notin OperationsUsed

\* what the code does: the legacy name if the instance declares the legacy
\* name, the cloudify_agent name otherwise
LegacyVariantPreferred ==
    \A v \in Variants :
        (v[1] \in OperationsUsed \/ v[2] \in OperationsUsed) =>
            IF v[2] \in instances["a"].operations
            THEN v[2] \in OperationsUsed /\ v[1] \notin OperationsUsed
            ELSE v[1] \in OperationsUsed /\ v[2] \notin OperationsUsed

\* C23: in the reinstall subgraph of a host, which holds the pre-stop and the
\* post-start steps, the agent is stopped and deleted exactly when it is
\* installed and started, through worker_installer exactly when installed
\* through worker_installer, through AMQP exactly when the agent is restarted
\* through AMQP; the monitoring agent is stopped, uninstalled, installed and
\* started
PreStopMirrorsPostStart ==
    phase = "reinstall" =>
        LET used == OperationsUsed
            legacy_install == Interface("worker_installer.install") \in used
            newer_install == Interface("cloudify_agent.create") \in used
            legacy_stop == Interface("worker_installer.stop") \in used
            newer_stop == Interface("cloudify_agent.stop") \in used
            amqp_stop == Interface("cloudify_agent.stop_amqp") \in used
        IN  /\ (legacy_stop \/ newer_stop \/ amqp_stop) <=> (legacy_install \/ newer_install)
            /\ legacy_stop <=> legacy_install
            /\ amqp_stop <=> Interface("cloudify_agent.restart_amqp") \in used
            /\ {Interface("monitoring_agent.stop"), Interface("monitoring_agent.uninstall"),
                Interface("monitoring_agent.install"), Interface("monitoring_agent.start")}
                   \subseteq used

\* the parts of the mirror that do hold: agent stop and delete exactly when
\* agent install and start, and the monitoring agent's four steps
AgentAndMonitoringMirrored ==
    phase = "reinstall" =>
        LET used == OperationsUsed
        IN  /\ (\/ Interface("worker_installer.stop") \in used
                \/ Interface("cloudify_agent.stop") \in used
                \/ Interface("cloudify_agent.stop_amqp") \in used)
                   <=> (\/ Interface("worker_installer.install") \in used
                        \/ Interface("cloudify_agent.create") \in used)
            /\ {Interface("monitoring_agent.stop"), Interface("monitoring_agent.uninstall"),
                Interface("monitoring_agent.install"), Interface("monitoring_agent.start")}
                   \subseteq used

-----------------------------------------------------------------------------
(* The current context (SpecContext) *)

\* the innermost push block a thread is inside
Innermost(th) == pushed[th][Len(pushed[th])]

\* the call a transition makes is a call of fn by thread th: every call
\* leaves its name and its thread in ret
Calls(th, fn) == ret'.id = th /\ ret'.fn = fn

\* C24: entering a push block makes its context and parameters current and
\* keeps what was current; inside the block, at any nesting, get_ctx returns
\* the innermost block's context and get_parameters its parameters; leaving a
\* block makes current what was current when it was entered; and with no
\* block around and nothing current, get_ctx and get_parameters raise
\* NotInContext
PushIsScoped ==
    [][\A th \in Threads :
          /\ Calls(th, "push") =>
                /\ pushed'[th] = Append(pushed[th], Innermost(th)')
                /\ Innermost(th)'.previous = current_ctx[th]
                /\ current_ctx'[th] = Context(Innermost(th)'.ctx, Innermost(th)'.parameters)
          /\ (Calls(th, "get_ctx") /\ pushed[th] # <<>>) =>
                ret' = Returned("get_ctx", th, Some(Innermost(th).ctx), None)
          /\ (Calls(th, "get_parameters") /\ pushed[th] # <<>>
                 /\ Innermost(th).parameters # None) =>
                ret' = Returned("get_parameters", th, Innermost(th).parameters, None)
          /\ Calls(th, "exit") =>
                /\ current_ctx'[th] = Innermost(th).previous
                /\ pushed[th] = Append(pushed'[th], Innermost(th))
          /\ (Calls(th, "get_ctx") /\ pushed[th] = <<>> /\ current_ctx[th] = None) =>
                ret' = Raised("get_ctx", th, NotInContext)
          /\ (Calls(th, "get_parameters") /\ pushed[th] = <<>>
                 /\ current_ctx[th] = None) =>
                ret' = Raised("get_parameters", th, NotInContext)]_vars

\* a thread with a context set has entered two nested push blocks with other
\* contexts and has just left the inner one: the outer block's context is
\* current again
InnerBlockLeft ==
    \E th \in Threads :
        /\ ret = Returned("exit", th, None, None)
        /\ Len(pushed[th]) = 1
        /\ pushed[th][1].previous # None
        /\ pushed[th][1].previous[1].ctx # pushed[th][1].ctx
        /\ current_ctx[th] = Context(pushed[th][1].ctx, pushed[th][1].parameters)

\* C25: whatever the threads do and in whatever order, a call in one thread
\* leaves the context of every other thread as it is, get_ctx returns the
\* calling thread's own context and raises NotInContext if that thread has
\* none, set gives the calling thread a context and clear takes it away
ContextIsPerThread ==
    [][\A th \in Threads :
          (ret'.id = th) =>
              /\ \A u \in Threads \ {th} :
                    current_ctx'[u] = current_ctx[u] /\ pushed'[u] = pushed[u]
              /\ ret'.fn = "get_ctx" =>
                    /\ current_ctx'[th] = current_ctx[th]
                    /\ ret' = IF current_ctx[th] = None
                              THEN Raised("get_ctx", th, NotInContext)
                              ELSE Returned("get_ctx", th, Some(current_ctx[th][1].ctx), None)
              /\ ret'.fn = "set" => current_ctx'[th] # None
              /\ ret'.fn = "clear" => current_ctx'[th] = None]_vars

\* the two threads have set different contexts, and get_ctx in the second
\* has returned the second's
EachThreadItsOwn ==
    /\ current_ctx[1] # None /\ current_ctx[2] # None
    /\ current_ctx[1][1].ctx = "ctx1"
    /\ current_ctx[2][1].ctx = "ctx2"
    /\ pushed[1] = <<>> /\ pushed[2] = <<>>
    /\ ret = Returned("get_ctx", 2, Some("ctx2"), None)

-----------------------------------------------------------------------------
(* The steps of RemoteWorkflowTask.apply_async (Spec) *)

\* apply_async of the remote task t takes a step
ApplyAsyncStep(t) == is_remote(tasks[t]) /\ pc'[t] # pc[t]

\* C26: a call of apply_async on a remote task goes through the registration
\* check, the 'sending' event, the dispatch, state = sent and the result
\* handle in this order: during the check nothing has been sent or dispatched
\* and the task is not touched; the event is sent only after a check that
\* found the name, the dispatch follows the event, the state is set to sent
\* after the dispatch, and then the handle is stored and returned; a check
\* that fails ends the call with the error, no event, no dispatch and the task
\* as it was; no step waits for the operation's result
ApplyAsyncOrder ==
    [][\A t \in DOMAIN tasks :
          ApplyAsyncStep(t) =>
              /\ pc[t] \in {"idle", "query", "store"} =>
                    /\ tasks'[t] = tasks[t]
                    /\ t \notin sent_events' /\ t \notin dispatched'
                    /\ pc'[t] \in {"query", "store", "send_event", "idle"}
              /\ pc'[t] = "send_event" =>
                    /\ pc[t] \in {"idle", "store"}
                    /\ tasks[t].name \in local_reg'[t]
              /\ (pc[t] = "store" /\ pc'[t] = "idle") =>
                    /\ ret' = Raised("apply_async", t, MissingTaskError)
                    /\ tasks[t].name \notin local_reg[t]
              /\ pc[t] = "send_event" =>
                    /\ pc'[t] = "dispatch"
                    /\ sent_events' = sent_events \cup {t}
                    /\ t \notin dispatched'
                    /\ tasks'[t] = tasks[t]
              /\ pc[t] = "dispatch" =>
                    /\ pc'[t] = "set_sent"
                    /\ t \in sent_events
                    /\ dispatched' = dispatched \cup {t}
                    /\ celery'[t] = None
                    /\ tasks'[t] = tasks[t]
              /\ pc[t] = "set_sent" =>
                    /\ pc'[t] = "store_result"
                    /\ t \in sent_events /\ t \in dispatched
                    /\ tasks'[t] = [tasks[t] EXCEPT !.state = TASK_SENT]
              /\ pc[t] = "store_result" =>
                    /\ pc'[t] = "idle"
                    /\ t \in sent_events /\ t \in dispatched
                    /\ tasks'[t] = [tasks[t] EXCEPT
                                       !.async_result = Some(RemoteWorkflowTaskResult)]
                    /\ ret' = Returned("apply_async", t, None,
                                       Some(RemoteWorkflowTaskResult))]_vars

\* apply_async has returned the result handle of a task that is sent, while
\* the operation has not ended on the worker
ReturnedBeforeTheOperationEnds ==
    \E t \in DOMAIN tasks :
        /\ is_remote(tasks[t])
        /\ pc[t] = "idle"
        /\ ret = Returned("apply_async", t, None, Some(RemoteWorkflowTaskResult))
        /\ tasks[t].state = TASK_SENT
        /\ tasks[t].async_result = Some(RemoteWorkflowTaskResult)
        /\ t \in sent_events /\ t \in dispatched
        /\ celery[t] = None

-----------------------------------------------------------------------------
(* The second pass of _finish_subgraphs: intact instances (SpecWiring) *)

\* the targets of the relationships of an instance
TargetsOf(I) ==
    {instances[I].relationships[r] : r \in 1..Len(instances[I].relationships)}

\* the dependency between the subgraphs of a source instance and of one of its
\* targets is in the graph, in the direction of the phase
Wired(I, B) ==
    /\ I \in DOMAIN subgraphs
    /\ B \in DOMAIN subgraphs
    /\ dependency(subgraphs[I], subgraphs[B], phase = "install") \in graph.deps

\* C27: for an instance of intact_nodes, the dependency between its subgraph
\* and the subgraph of the target of one of its relationships is added exactly
\* when the target is in node_instances (install: the intact source waits for
\* the target, uninstall: the target waits for the intact source); a
\* relationship between two instances of intact_nodes adds no dependency
IntactWiredToActiveOnly ==
    phase \in {"install", "uninstall"} =>
        \A I \in intact_nodes : \A B \in TargetsOf(I) :
            Wired(I, B) <=> B \in node_instances

\* what _add_dependencies does for an instance of intact_nodes: the dependency
\* is added exactly when the target is in node_instances or in intact_nodes
IntactWiredToListedTargets ==
    phase \in {"install", "uninstall"} =>
        \A I \in intact_nodes : \A B \in TargetsOf(I) :
            Wired(I, B) <=> B \in node_instances \cup intact_nodes

\* the subgraph the builder of the phase makes for an instance on its own, in
\* an empty graph, where it is node 1
BuiltAlone(A, install) ==
    IF install
    THEN install_node_instance_subgraph(EmptyGraph, A, instances[A], NoSubgraph)
    ELSE uninstall_node_instance_subgraph(EmptyGraph, A, instances[A], NoSubgraph)

\* what a task node is a call of
CallOf(node) == <<node.kind, node.fn, node.arg, node.rel>>

\* the tasks of a subgraph: what each is a call of, by its place after the
\* subgraph in the graph
TasksOfSubgraph(G, subgraph) ==
    {<<n - subgraph, CallOf(G.nodes[n])>> : n \in G.nodes[subgraph].tasks}

\* C28: the wiring puts relationship tasks into the stub subgraph of an instance
\* of intact_nodes exactly for its relationships whose target is in
\* node_instances, two for each: the source side and the target side of
\* establish on install, of unlink on uninstall; its relationships to other
\* targets put nothing there, and the subgraph of an instance of node_instances
\* holds the tasks its builder gave it and no other
InjectedForActiveTargets ==
    [][(phase = "constructed" /\ phase' # "constructed") =>
          LET install == phase' = "install"
              intact_op == IF install
                           THEN "cloudify.interfaces.relationship_lifecycle.establish"
                           ELSE "cloudify.interfaces.relationship_lifecycle.unlink"
              G == graph'
          IN  /\ \A I \in intact_nodes :
                    LET stub == G.nodes[subgraphs'[I]]
                        rels == 1..Len(instances[I].relationships)
                    IN  /\ \A n \in stub.tasks : G.nodes[n].rel \in rels
                        /\ \A r \in rels :
                              LET injected == {n \in stub.tasks : G.nodes[n].rel = r}
                              IN  IF instances[I].relationships[r] \in node_instances
                                  THEN /\ Cardinality(injected) = 2
                                       /\ {CallOf(G.nodes[n]) : n \in injected} =
                                              {<<"task", "execute_source_operation",
                                                 intact_op, r>>,
                                               <<"task", "execute_target_operation",
                                                 intact_op, r>>}
                                  ELSE injected = {}
              /\ \A A \in node_instances :
                    \A alone \in {BuiltAlone(A, install)} :
                        TasksOfSubgraph(G, subgraphs'[A]) = TasksOfSubgraph(alone, 1)]_vars

\* after the wiring of an uninstall, the stub of intact b holds the two unlink
\* tasks of its relationship to c, which is in node_instances, and nothing else
UnlinkInjectedIntoStub ==
    /\ phase = "uninstall"
    /\ intact_nodes = {"b"}
    /\ node_instances = {"a", "c"}
    /\ instances["b"].relationships = <<"c">>
    /\ graph.nodes[subgraphs["b"]].arg = "stub"
    /\ Cardinality(graph.nodes[subgraphs["b"]].tasks) = 2
    /\ graph.nodes[subgraphs["b"]].tasks =
           RelationshipSteps(subgraphs["b"],
                             "cloudify.interfaces.relationship_lifecycle.unlink")

-----------------------------------------------------------------------------
(* Instances listed in both collections (SpecOverlap) *)

\* LifecycleProcessor(graph, node_instances, intact_nodes) with some instance
\* in both node_instances and intact_nodes
OverlapInit ==
    /\ TaskIdle
    /\ \E ra \in {<<>>, <<"b">>, <<"b", "c">>}, rb \in {<<>>, <<"c">>} :
           instances = [i \in InstanceIds |->
                           PlainInstance(IF i = "a" THEN ra
                                         ELSE IF i = "b" THEN rb ELSE <<>>)]
    /\ \E active \in {{"a"}, {"a", "b"}}, intact \in SUBSET InstanceIds :
           /\ active \cap intact # {}
           /\ node_instances = active
           /\ intact_nodes = intact
    /\ graph = EmptyGraph
    /\ subgraphs = <<>>
    /\ phase = "constructed"
    /\ handler_results = <<>>

SpecOverlap == OverlapInit /\ [][WiringNext]_vars

\* C29: every dependency between the subgraphs of the processor's instances
\* that has the subgraph of an instance of node_instances at one end has there
\* the subgraph the builder of the phase made for it, never a stub, also when
\* the instance is in intact_nodes as well
EndpointsAreLifecycleSubgraphs ==
    phase \in {"install", "uninstall"} =>
        \A A \in node_instances :
            \A d \in {e \in graph.deps : subgraphs[A] \in {e[1], e[2]}} :
                /\ graph.nodes[subgraphs[A]].instance = A
                /\ graph.nodes[subgraphs[A]].arg = phase
                /\ graph.nodes[subgraphs[A]].tasks # {}

-----------------------------------------------------------------------------
(* plugins/tasks.py: assert_agent_validation_succeeded (SpecAgent) *)

\* the longest node_instances_id list a caller passes
MaxListed == 3

\* what the agent validation left in an instance's runtime properties:
\* nothing, a status without the crossbroker entry, or one with it
AgentKinds == {"none", "unknown", "dead", "alive"}

\* node_instance.runtime_properties
RuntimeProperties(kind) ==
    IF kind = "none" THEN [ip |-> "10.0.0.1"]
    ELSE [ip |-> "10.0.0.1",
          agent_status |->
              IF kind = "unknown" THEN [agent_alive |-> TRUE]
              ELSE [agent_alive |-> TRUE,
                    agent_alive_crossbroker |-> kind = "alive"]]

\* dict.get(key): the value, None without the key
DictGet(dict, key) == IF key \in DOMAIN dict THEN Some(dict[key]) ELSE None

\* `not value` of what dict.get returned
Falsy(value) == value = None \/ value[1] = FALSE

\* NonRecoverableError(message.format(node_instance_id))
NonRecoverable(message, node_instance_id) ==
    [tag |-> "exc", v |-> 0, cls |-> "NonRecoverableError", retry_after |-> None,
     message |-> <<message, node_instance_id>>]

\* the lists of at most MaxListed instance ids
IdLists == UNION {[1..n -> InstanceIds] : n \in 0..MaxListed}

\* assert_agent_validation_succeeded(node_instances_id) is called
AssertBegin(ids) ==
    /\ agent_pc = "idle"
    /\ node_instances_id' = ids
    /\ examined' = <<>>
    /\ agent_pc' = "for"
    /\ ret' = NoCall
    /\ UNCHANGED <<runtime_properties, ctxVars, tasks, pc, calls, local_result,
                   local_reg, cache, registered, queries, sent_events, dispatched,
                   celery, instances, node_instances, intact_nodes, graph,
                   subgraphs, phase, handler_results>>

\* one pass of the loop that stops at an instance without agent_status only
AssertExamine_status_only ==
    /\ agent_pc = "for"
    /\ Len(examined) < Len(node_instances_id)
    /\ LET node_instance_id == node_instances_id[Len(examined) + 1]
           properties == runtime_properties[node_instance_id]
       IN  /\ examined' = Append(examined, node_instance_id)
           /\ IF "agent_status" \notin DOMAIN properties
              THEN /\ ret' = Raised("assert_agent_validation_succeeded", 0,
                                    NonRecoverable("No validation results for node instance {0}",
                                                   node_instance_id))
                   /\ agent_pc' = "idle"
              ELSE UNCHANGED <<ret, agent_pc>>
    /\ UNCHANGED <<runtime_properties, node_instances_id, ctxVars, tasks, pc, calls,
                   local_result, local_reg, cache, registered, queries, sent_events,
                   dispatched, celery, instances, node_instances, intact_nodes,
                   graph, subgraphs, phase, handler_results>>

\* one pass of the loop: the next instance is fetched and its agent_status
\* looked at
AssertExamine ==
    /\ agent_pc = "for"
    /\ Len(examined) < Len(node_instances_id)
    /\ LET node_instance_id == node_instances_id[Len(examined) + 1]
           properties == runtime_properties[node_instance_id]
       IN  /\ examined' = Append(examined, node_instance_id)
           /\ IF "agent_status" \notin DOMAIN properties
              THEN /\ ret' = Raised("assert_agent_validation_succeeded", 0,
                                    NonRecoverable("No validation results for node instance {0}",
                                                   node_instance_id))
                   /\ agent_pc' = "idle"
              ELSE IF Falsy(DictGet(properties.agent_status, "agent_alive_crossbroker"))
              THEN /\ ret' = Raised("assert_agent_validation_succeeded", 0,
                                    NonRecoverable("Could not connect to agent on {0}",
                                                   node_instance_id))
                   /\ agent_pc' = "idle"
              ELSE UNCHANGED <<ret, agent_pc>>
    /\ UNCHANGED <<runtime_properties, node_instances_id, ctxVars, tasks, pc, calls,
                   local_result, local_reg, cache, registered, queries, sent_events,
                   dispatched, celery, instances, node_instances, intact_nodes,
                   graph, subgraphs, phase, handler_results>>

\* the loop has passed every id: the function returns
AssertReturn ==
    /\ agent_pc = "for"
    /\ Len(examined) = Len(node_instances_id)
    /\ ret' = Returned("assert_agent_validation_succeeded", 0, None, None)
    /\ agent_pc' = "idle"
    /\ UNCHANGED <<runtime_properties, node_instances_id, examined, ctxVars, tasks, pc,
                   calls, local_result, local_reg, cache, registered, queries,
                   sent_events, dispatched, celery, instances, node_instances,
                   intact_nodes, graph, subgraphs, phase, handler_results>>

\* a deployment whose instances hold any of the validation results
AgentInit ==
    /\ CtxIdle
    /\ tasks = <<>>
    /\ pc = <<>>
    /\ calls = <<>>
    /\ local_result = <<>>
    /\ local_reg = <<>>
    /\ cache = <<>>
    /\ registered = [g \in Targets |-> {}]
    /\ queries = <<>>
    /\ sent_events = {}
    /\ dispatched = {}
    /\ celery = <<>>
    /\ ret = NoCall
    /\ instances = <<>>
    /\ node_instances = {}
    /\ intact_nodes = {}
    /\ graph = EmptyGraph
    /\ subgraphs = <<>>
    /\ phase = "idle"
    /\ handler_results = <<>>
    /\ \E kinds \in [InstanceIds -> AgentKinds] :
           runtime_properties = [i \in InstanceIds |-> RuntimeProperties(kinds[i])]
    /\ node_instances_id = <<>>
    /\ examined = <<>>
    /\ agent_pc = "idle"

AgentNext ==
    \/ \E ids \in IdLists : AssertBegin(ids)
    \/ AssertExamine
    \/ AssertReturn

SpecAgent == AgentInit /\ [][AgentNext]_vars

\* the instance passes the check: it has an agent_status whose
\* agent_alive_crossbroker entry is truthy
Validated(i) ==
    /\ "agent_status" \in DOMAIN runtime_properties[i]
    /\ "agent_alive_crossbroker" \in DOMAIN runtime_properties[i].agent_status
    /\ runtime_properties[i].agent_status.agent_alive_crossbroker = TRUE

\* the places of the list whose instance does not pass
Violators == {k \in 1..Len(node_instances_id) : ~Validated(node_instances_id[k])}

\* a call of assert_agent_validation_succeeded has ended
AssertEnded == agent_pc = "idle" /\ ret.fn = "assert_agent_validation_succeeded"

\* C30: assert_agent_validation_succeeded returns if and only if every listed
\* instance has an agent_status with a truthy agent_alive_crossbroker;
\* otherwise it raises NonRecoverableError for the first instance of the list
\* that has not, 'No validation results' without agent_status and 'Could not
\* connect to agent' with the entry falsy or missing, the instances after it
\* are not examined, and no step changes an instance's runtime properties
AgentValidationAsserted ==
    /\ [](AssertEnded =>
            /\ ret.raised = None <=> Violators = {}
            /\ Violators = {} => examined = node_instances_id
            /\ Violators # {} =>
                  LET first == CHOOSE k \in Violators : \A j \in Violators : k <= j
                      id == node_instances_id[first]
                  IN  /\ examined = SubSeq(node_instances_id, 1, first)
                      /\ ret.raised =
                             Some(NonRecoverable(
                                 IF "agent_status" \in DOMAIN runtime_properties[id]
                                 THEN "Could not connect to agent on {0}"
                                 ELSE "No validation results for node instance {0}",
                                 id)))
    /\ [][runtime_properties' = runtime_properties]_vars

\* a call has raised 'Could not connect to agent' for b, the second of three
\* listed instances, whose status lacks the entry, after a passed; c, which
\* has no agent_status, was not examined
StoppedAtFirstViolator ==
    /\ AssertEnded
    /\ node_instances_id = <<"a", "b", "c">>
    /\ Validated("a")
    /\ "agent_status" \in DOMAIN runtime_properties["b"]
    /\ "agent_alive_crossbroker" \notin DOMAIN runtime_properties["b"].agent_status
    /\ "agent_status" \notin DOMAIN runtime_properties["c"]
    /\ examined = <<"a", "b">>
    /\ ret.raised = Some(NonRecoverable("Could not connect to agent on {0}", "b"))

====
